---- MODULE Spec2Model ----
(***************************************************************************)
(* Bank transaction categorizer: the vendor matcher, the duplicate         *)
(* detector, the batch categorizer and the processing pipeline, with the   *)
(* relational store (Vendor and Transaction tables) and the ORM session    *)
(* they write through.                                                     *)
(*                                                                         *)
(* Strings are sequences of one-character strings over a small alphabet:   *)
(* the letters x and y in both cases, ".", "," and " ".  No word over this  *)
(* alphabet is one of the business suffixes of _normalize_name, so the     *)
(* suffix pattern never matches a modelled name.                           *)
(* Scores (similarity ratios, thresholds) are exact rationals, kept as     *)
(* integers in units of 1/ScoreScale.                                      *)
(***************************************************************************)
EXTENDS Integers, Sequences, FiniteSets, TLC

VARIABLES
    vendors,        \* committed rows of table vendors, in rowid order
    transactions,   \* committed rows of table transactions, in rowid order
    session,        \* the processor's ORM session: objects added, not yet committed
    caches,         \* the categorizers' vendor-info caches (dashboard, worker)
    run,            \* the processing run in progress (locals of the entry point)
    procs,          \* concurrent create_or_get_vendor callers, one session each
    call            \* the last direct call of a function, with what it returned

vars == <<vendors, transactions, session, caches, run, procs, call>>

(***************************************************************************)
(* Strings                                                                 *)
(***************************************************************************)
\* Python's None where an object is expected, and where a string is expected
None == [none |-> TRUE]
NoStr == <<"None">>

\* not s, for an optional string
Falsy(s) == s = NoStr \/ s = <<>>

Max(S) == CHOOSE m \in S : \A n \in S : n <= m
Min(S) == CHOOSE m \in S : \A n \in S : m <= n

LowerChar(c) == CASE c = "X" -> "x" [] c = "Y" -> "y" [] OTHER -> c

\* str.lower()
Lower(s) == [i \in 1..Len(s) |-> LowerChar(s[i])]

RECURSIVE LStrip(_)
LStrip(s) == IF s # <<>> /\ Head(s) = " " THEN LStrip(Tail(s)) ELSE s

RECURSIVE RStrip(_)
RStrip(s) ==
    IF s # <<>> /\ s[Len(s)] = " " THEN RStrip(SubSeq(s, 1, Len(s) - 1)) ELSE s

\* str.strip()
Strip(s) == RStrip(LStrip(s))

WordChars == {"x", "y", "X", "Y"}

\* re.sub(r'[^\w\s]', ' ', name)
ReplacePunct(s) ==
    [i \in 1..Len(s) |-> IF s[i] \in WordChars \cup {" "} THEN s[i] ELSE " "]

\* re.sub(r'\s+', ' ', name)
RECURSIVE CollapseSpaces(_)
CollapseSpaces(s) ==
    IF Len(s) < 2 THEN s
    ELSE IF s[1] = " " /\ s[2] = " " THEN CollapseSpaces(Tail(s))
    ELSE <<s[1]>> \o CollapseSpaces(Tail(s))

\* str.split(sep): the fields between the separators, empty fields included
RECURSIVE Split(_, _)
Split(s, sep) ==
    IF \A i \in 1..Len(s) : s[i] # sep THEN <<s>>
    ELSE LET p == Min({i \in 1..Len(s) : s[i] = sep})
         IN  <<SubSeq(s, 1, p - 1)>> \o Split(SubSeq(s, p + 1, Len(s)), sep)

\* sep.join(parts)
RECURSIVE Join(_, _)
Join(parts, sep) ==
    IF parts = <<>> THEN <<>>
    ELSE IF Len(parts) = 1 THEN parts[1]
    ELSE parts[1] \o <<sep>> \o Join(Tail(parts), sep)

\* a in b, for strings
IsSubstring(a, b) ==
    \E i \in 0..(Len(b) - Len(a)) : SubSeq(b, i + 1, i + Len(a)) = a

(***************************************************************************)
(* difflib.SequenceMatcher(None, a, b).ratio()                             *)
(***************************************************************************)
ScoreScale == 8 * 9 * 5 * 7 * 11

Score(num, den) == (num * ScoreScale) \div den

RECURSIVE MatchLen(_, _, _, _)
MatchLen(a, b, i, j) ==
    IF i > Len(a) \/ j > Len(b) \/ a[i] # b[j] THEN 0
    ELSE 1 + MatchLen(a, b, i + 1, j + 1)

\* find_longest_match: the longest common block, the earliest in a, then in b
PickInB(a, b, k, i0) ==
    [i |-> i0, j |-> Min({j \in 1..Len(b) : MatchLen(a, b, i0, j) = k}), k |-> k]

PickInA(a, b, k) ==
    PickInB(a, b, k,
            Min({i \in 1..Len(a) : \E j \in 1..Len(b) : MatchLen(a, b, i, j) = k}))

LongestMatch(a, b) ==
    IF a = <<>> \/ b = <<>> THEN [i |-> 1, j |-> 1, k |-> 0]
    ELSE PickInA(a, b, Max({MatchLen(a, b, i, j) : i \in 1..Len(a), j \in 1..Len(b)}))

\* get_matching_blocks: total size of the blocks, left and right of the longest
RECURSIVE Matches(_, _)
RECURSIVE MatchesAround(_, _, _)
MatchesAround(a, b, m) ==
    IF m.k = 0 THEN 0
    ELSE m.k
         + Matches(SubSeq(a, 1, m.i - 1), SubSeq(b, 1, m.j - 1))
         + Matches(SubSeq(a, m.i + m.k, Len(a)), SubSeq(b, m.j + m.k, Len(b)))

Matches(a, b) == MatchesAround(a, b, LongestMatch(a, b))

Ratio(a, b) ==
    IF Len(a) + Len(b) = 0 THEN ScoreScale
    ELSE Score(2 * Matches(a, b), Len(a) + Len(b))

(***************************************************************************)
(* VendorMatcher                                                           *)
(***************************************************************************)
\* _normalize_name
NormalizeName(name) ==
    IF name = <<>> THEN <<>>
    ELSE Strip(CollapseSpaces(ReplacePunct(Strip(Lower(name)))))

\* _calculate_similarity
CalculateSimilarity(str1, str2) ==
    IF str1 = <<>> \/ str2 = <<>> THEN 0
    ELSE IF 2 * (Max({Len(str1), Len(str2)}) - Min({Len(str1), Len(str2)}))
            > Max({Len(str1), Len(str2)}) THEN 0
    ELSE IF IsSubstring(str1, str2) \/ IsSubstring(str2, str1) THEN Score(9, 10)
    ELSE Ratio(str1, str2)

\* Vendor.name.ilike(pattern): no modelled name holds a LIKE wildcard
Ilike(value, pattern) == Lower(value) = Lower(pattern)

\* query(Vendor).filter(Vendor.name.ilike(name)).first()
FirstIlike(vs, name) ==
    LET hits == {i \in 1..Len(vs) : Ilike(vs[i].name, name)}
    IN  IF hits = {} THEN None ELSE vs[Min(hits)]

\* _find_exact_match
FindExactMatch(vs, original_name, normalized_name) ==
    LET exact_match == FirstIlike(vs, original_name)
        same == {i \in 1..Len(vs) : NormalizeName(vs[i].name) = normalized_name}
    IN  IF exact_match # None THEN exact_match
        ELSE IF same # {} THEN vs[Min(same)]
        ELSE None

\* _check_nicknames
CheckNicknames(normalized_input, nicknames_str) ==
    LET nicks == Split(nicknames_str, ",")
    IN  Max({0} \cup { CalculateSimilarity(normalized_input,
                                           NormalizeName(Strip(nicks[i]))) :
                       i \in {n \in 1..Len(nicks) : Strip(nicks[n]) # <<>>} })

\* _check_domain
CheckDomain(normalized_input, domain) ==
    LET domain_parts == Split(Lower(domain), ".")
        domain_name == IF Len(domain_parts) > 1
                       THEN domain_parts[Len(domain_parts) - 1]
                       ELSE Lower(domain)
    IN  CalculateSimilarity(normalized_input, domain_name)

Threshold == Score(8, 10)

NoBest == [vendor |-> None, score |-> 0]

\* if score > best_score and score >= threshold: best_match, best_score = vendor, score
Better(best, vendor, score) ==
    IF score > best.score /\ score >= Threshold
    THEN [vendor |-> vendor, score |-> score] ELSE best

\* the nickname check of _find_fuzzy_match, skipped at a canonical score >= 0.95
NicknameStep(best, vendor, normalized_input, score) ==
    IF vendor.nicknames # <<>> /\ score < Score(95, 100)
    THEN Better(best, vendor, CheckNicknames(normalized_input, vendor.nicknames))
    ELSE best

\* the domain check of _find_fuzzy_match, skipped at a best score of 1.0
DomainStep(best, vendor, normalized_input) ==
    IF ~Falsy(vendor.domain) /\ best.score < ScoreScale
    THEN Better(best, vendor, CheckDomain(normalized_input, vendor.domain))
    ELSE best

FuzzyStepWith(best, vendor, normalized_input, score) ==
    DomainStep(NicknameStep(Better(best, vendor, score), vendor, normalized_input, score),
               vendor, normalized_input)

\* one iteration of the loop of _find_fuzzy_match
FuzzyStep(best, vendor, normalized_input) ==
    FuzzyStepWith(best, vendor, normalized_input,
                  CalculateSimilarity(normalized_input, NormalizeName(vendor.name)))

RECURSIVE FuzzyLoop(_, _, _, _)
FuzzyLoop(vs, i, best, normalized_input) ==
    IF i > Len(vs) THEN best
    ELSE FuzzyLoop(vs, i + 1, FuzzyStep(best, vs[i], normalized_input), normalized_input)

NoMatch == [found |-> FALSE]

\* return (best_match, best_score) if best_match else None
FuzzyResult(best) ==
    IF best.vendor # None
    THEN [found |-> TRUE, vendor |-> best.vendor, score |-> best.score]
    ELSE NoMatch

\* _find_fuzzy_match
FindFuzzyMatch(vs, normalized_input) ==
    FuzzyResult(FuzzyLoop(vs, 1, NoBest, normalized_input))

\* find_existing_vendor, from the exact pass on
ExactOrFuzzy(vs, normalized_input, exact_vendor) ==
    IF exact_vendor # None
    THEN [found |-> TRUE, vendor |-> exact_vendor, score |-> ScoreScale]
    ELSE FindFuzzyMatch(vs, normalized_input)

FindNormalized(vs, vendor_name, normalized_input) ==
    IF normalized_input = <<>> THEN NoMatch
    ELSE ExactOrFuzzy(vs, normalized_input,
                      FindExactMatch(vs, vendor_name, normalized_input))

\* find_existing_vendor
FindExistingVendor(vs, vendor_name) ==
    IF Falsy(vendor_name) THEN NoMatch
    ELSE FindNormalized(vs, vendor_name, NormalizeName(vendor_name))

\* _format_nicknames, for a list of nicknames
NonEmpty(s) == s # <<>>

FormatNicknames(nicknames) ==
    LET kept == SelectSeq(nicknames, NonEmpty)
    IN  Join([i \in 1..Len(kept) |-> Strip(kept[i])], ",")

(***************************************************************************)
(* The store: table vendors                                                *)
(***************************************************************************)
NoId == 0

\* Vendor(...) built by _create_new_vendor from vendor_info, not yet flushed
NewVendor(vendor_name, vendor_info) ==
    [ id        |-> NoId,
      name      |-> IF vendor_info.name = NoStr THEN vendor_name ELSE vendor_info.name,
      nicknames |-> FormatNicknames(vendor_info.nicknames),
      domain    |-> vendor_info.domain ]

\* rowid given to an inserted row: one more than the largest in the table
NewId(rows) == IF rows = <<>> THEN 1 ELSE Max({rows[i].id : i \in 1..Len(rows)}) + 1

\* Column(String(255), unique=True): the index compares names byte for byte
UniqueViolation(vs, name, except_id) ==
    \E i \in 1..Len(vs) : vs[i].name = name /\ vs[i].id # except_id

(***************************************************************************)
(* Two concurrent create_or_get_vendor callers, each with a session of     *)
(* its own, and update_vendor from the dashboard.  Every query and every       *)
(* commit is one step; the store is otherwise available, so a commit fails *)
(* only on the uniqueness constraint.                                      *)
(***************************************************************************)
\* the two attempts of a race
Callers == {1, 2}

Names == { <<"X", "y">>, <<"x", "y">>, <<"x", "y", ".">>, <<"Y", "x">> }

\* the vendor_info dicts the callers pass (name absent: NoStr)
InfoSet ==
    [ name : {NoStr, <<"X", "y">>, <<"x", "y">>, <<"Y", "x">>},
      nicknames : { <<>>, << <<"Y", "x">> >> },
      domain : {NoStr} ]

IdleCaller == [pc |-> "idle"]

\* create_or_get_vendor is entered
CallCreateOrGet(p) ==
    /\ procs # None
    /\ procs[p].pc = "idle"
    /\ \E vendor_name \in Names, vendor_info \in InfoSet :
         procs' = [procs EXCEPT ![p] =
                     [ pc |-> "find_raw", vendor_name |-> vendor_name,
                       vendor_info |-> vendor_info, attempted |-> FALSE,
                       conflict |-> FALSE, result |-> None ]]
    /\ UNCHANGED <<vendors, transactions, session, caches, run, call>>

EnrichedName(c) ==
    IF c.vendor_info.name = NoStr THEN c.vendor_name ELSE c.vendor_info.name

\* existing_match = self.find_existing_vendor(vendor_name)
FindRaw(p) ==
    /\ procs # None
    /\ procs[p].pc = "find_raw"
    /\ LET c == procs[p]
           existing_match == FindExistingVendor(vendors, c.vendor_name)
       IN  procs' = [procs EXCEPT ![p] =
             IF existing_match.found
             THEN [c EXCEPT !.pc = "done", !.result = existing_match.vendor]
             ELSE IF EnrichedName(c) # c.vendor_name
             THEN [c EXCEPT !.pc = "find_enriched"]
             ELSE [c EXCEPT !.pc = "create"]]
    /\ UNCHANGED <<vendors, transactions, session, caches, run, call>>

\* enriched_match = self.find_existing_vendor(enriched_name)
FindEnriched(p) ==
    /\ procs # None
    /\ procs[p].pc = "find_enriched"
    /\ LET c == procs[p]
           enriched_match == FindExistingVendor(vendors, EnrichedName(c))
       IN  procs' = [procs EXCEPT ![p] =
             IF enriched_match.found
             THEN [c EXCEPT !.pc = "done", !.result = enriched_match.vendor]
             ELSE [c EXCEPT !.pc = "create"]]
    /\ UNCHANGED <<vendors, transactions, session, caches, run, call>>

\* _create_new_vendor: add and commit; the except branch starts with rollback
AddAndCommit(p) ==
    /\ procs # None
    /\ procs[p].pc = "create"
    /\ LET c == procs[p]
           vendor == NewVendor(c.vendor_name, c.vendor_info)
           row == [vendor EXCEPT !.id = NewId(vendors)]
       IN  IF UniqueViolation(vendors, vendor.name, NoId)
           THEN /\ procs' = [procs EXCEPT ![p] =
                       [c EXCEPT !.pc = "requery", !.attempted = TRUE,
                                 !.conflict = TRUE, !.result = vendor]]
                /\ UNCHANGED vendors
           ELSE /\ vendors' = Append(vendors, row)
                /\ procs' = [procs EXCEPT ![p] =
                       [c EXCEPT !.pc = "done", !.attempted = TRUE, !.result = row]]
    /\ UNCHANGED <<transactions, session, caches, run, call>>

\* a mutant of RequeryResult: the except branch returns the unsaved object
RequeryResultUnsaved(vs, c) == c.result

\* a mutant of RequeryResult: the re-query compares the names byte for byte
RequeryResultCaseSensitive(vs, c) ==
    LET hits == {i \in 1..Len(vs) : vs[i].name = EnrichedName(c)}
    IN  IF hits = {} THEN c.result ELSE vs[Min(hits)]

\* existing if existing else vendor, after the re-query by ilike
RequeryResult(vs, c) ==
    LET existing == FirstIlike(vs, EnrichedName(c))
    IN  IF existing # None THEN existing ELSE c.result

\* _create_new_vendor: the re-query of the except branch
Requery(p) ==
    /\ procs # None
    /\ procs[p].pc = "requery"
    /\ procs' = [procs EXCEPT ![p] =
           [procs[p] EXCEPT !.pc = "done", !.result = RequeryResult(vendors, procs[p])]]
    /\ UNCHANGED <<vendors, transactions, session, caches, run, call>>

UpdateNames == { <<"X", "y">>, <<"x", "y">>, <<"Y", "x">> }

\* DatabaseService.update_vendor with updated_data = {"name": name}
UpdateVendor ==
    /\ procs # None
    /\ \E i \in 1..Len(vendors), name \in UpdateNames :
         /\ vendors[i].name # name
         /\ IF UniqueViolation(vendors, name, vendors[i].id)
            THEN UNCHANGED vendors
            ELSE vendors' = [vendors EXCEPT ![i].name = name]
    /\ UNCHANGED <<transactions, session, caches, run, procs, call>>

InitVendor ==
    /\ vendors = <<>>
    /\ transactions = <<>>
    /\ session = <<>>
    /\ caches = None
    /\ run = None
    /\ procs = [p \in Callers |-> IdleCaller]
    /\ call = None

NextCreate ==
    \E p \in Callers :
        \/ CallCreateOrGet(p)
        \/ FindRaw(p)
        \/ FindEnriched(p)
        \/ AddAndCommit(p)
        \/ Requery(p)

NextVendor == NextCreate \/ UpdateVendor

\* two callers racing, nothing else writing
SpecCreate == InitVendor /\ [][NextCreate]_vars

\* the callers and the dashboard's update_vendor
SpecVendor == InitVendor /\ [][NextVendor]_vars

\* C1: when two interleaved create_or_get_vendor attempts for the same
\* canonical name both reach the insert, exactly one row with that name
\* exists once both have returned, and both hold that row.
C1_OneRowAfterRace ==
    \A p, q \in Callers :
        ( /\ p # q
          /\ procs[p].pc = "done" /\ procs[q].pc = "done"
          /\ procs[p].attempted /\ procs[q].attempted
          /\ EnrichedName(procs[p]) = EnrichedName(procs[q]) )
        => LET rows == {i \in 1..Len(vendors) : vendors[i].name = EnrichedName(procs[p])}
           IN  /\ Cardinality(rows) = 1
               /\ \A i \in rows : /\ procs[p].result.id = vendors[i].id
                                   /\ procs[q].result.id = vendors[i].id

\* both attempts reached the insert with one name, and one lost the race
C1_Witness ==
    \E p, q \in Callers :
        /\ p # q
        /\ procs[p].pc = "done" /\ procs[q].pc = "done"
        /\ procs[p].attempted /\ procs[q].attempted
        /\ EnrichedName(procs[p]) = EnrichedName(procs[q])
        /\ procs[q].conflict

\* C2: no two Vendor rows have canonical names equal under case-insensitive
\* comparison, in any reachable state of the store.
C2_CaseInsensitiveUnique ==
    \A i, j \in 1..Len(vendors) :
        i # j => Lower(vendors[i].name) # Lower(vendors[j].name)

\* C11: when the insert of _create_new_vendor fails on the uniqueness
\* constraint, nothing is written and the caller goes on to the re-query; the
\* re-query returns the first stored row whose name equals the new vendor's
\* name case-insensitively, and the unsaved vendor only when there is none;
\* the call ends by returning, never by raising.
C11_RequeryAfterUniqueViolation ==
    [][\A p \in Callers :
         /\ ( /\ procs[p].pc = "create" /\ procs'[p] # procs[p]
              /\ UniqueViolation(vendors, EnrichedName(procs[p]), NoId) )
            => /\ procs'[p].pc = "requery"
               /\ vendors' = vendors
         /\ (procs[p].pc = "requery" /\ procs'[p] # procs[p])
            => /\ procs'[p].pc = "done"
               /\ LET hits == {i \in 1..Len(vendors) :
                                 Lower(vendors[i].name) = Lower(EnrichedName(procs[p]))}
                  IN  IF hits # {}
                      THEN procs'[p].result = vendors[Min(hits)]
                      ELSE /\ procs'[p].result.id = NoId
                           /\ procs'[p].result.name = EnrichedName(procs[p])
       ]_vars

\* an insert failed on the uniqueness constraint and the call returned the
\* stored row
C11_Witness ==
    \E p \in Callers :
        /\ procs[p].pc = "done" /\ procs[p].conflict
        /\ procs[p].result.id # NoId
        /\ \E i \in 1..Len(vendors) : vendors[i] = procs[p].result

(***************************************************************************)
(* ConfidenceCalculator.  A confidence is kept as the call that computed   *)
(* it: the function and its arguments.  The three calculators below never  *)
(* return 0.0 for the arguments the pipeline passes: the category          *)
(* confidence is clamped to [0.1, 1.0], the fallback to [0.2, 0.8], and    *)
(* the vendor confidence of a non-empty name is a sigmoid, blended or not. *)
(***************************************************************************)
ZeroConf == [fn |-> "0.0"]

\* a float taken from an oracle response, in units of 1/ScoreScale
OracleConf(v) == IF v = 0 THEN ZeroConf ELSE [fn |-> "oracle", v |-> v]

\* a match score returned by find_existing_vendor
ScoreConf(score) == IF score = 0 THEN ZeroConf ELSE [fn |-> "score", v |-> score]

\* calculate_category_confidence(transaction, category, llm_confidence)
CalculateCategoryConfidence(transaction, category, llm_confidence) ==
    [fn |-> "category_confidence", transaction |-> transaction,
     category |-> category, llm_confidence |-> llm_confidence]

\* calculate_vendor_confidence(vendor_name, transaction, identification_confidence)
CalculateVendorConfidence(vendor_name, transaction, identification_confidence) ==
    IF Falsy(vendor_name) THEN ZeroConf
    ELSE [fn |-> "vendor_confidence", vendor_name |-> vendor_name,
          transaction |-> transaction,
          identification_confidence |-> identification_confidence]

\* calculate_llm_fallback_confidence(transaction, category)
CalculateLlmFallbackConfidence(transaction, category) ==
    [fn |-> "llm_fallback_confidence", transaction |-> transaction,
     category |-> category]

\* a * b, for two confidences
Times(a, b) ==
    IF a = ZeroConf \/ b = ZeroConf THEN ZeroConf
    ELSE [fn |-> "*", a |-> a, b |-> b]

(***************************************************************************)
(* The oracle's answer to a batch prompt, and categorize_batch_ultra_fast  *)
(***************************************************************************)
\* a key the response does not hold: a category, an id, a confidence
Absent == "absent"
AbsentId == 0 - 1
NoConf == 0 - 1

\* the transaction dict {} used when an index is out of the batch
EmptyDict == [empty |-> TRUE]

\* batch[idx] if idx < len(batch) else {}; a negative idx counts from the end
BatchAt(batch, idx) ==
    IF idx >= Len(batch) THEN EmptyDict
    ELSE IF idx >= 0 THEN batch[idx + 1]
    ELSE batch[Len(batch) + idx + 1]

\* the try branch of the loop over batch_results: one FastBatchResult
ItemResult(item, batch, i, n_results) ==
    LET transaction_id == IF item.transaction_id = AbsentId THEN i + n_results
                          ELSE item.transaction_id
        original_transaction == BatchAt(batch, transaction_id - i)
        category == IF item.category = Absent THEN "other" ELSE item.category
    IN  [ transaction_id    |-> transaction_id,
          category          |-> category,
          confidence        |-> CalculateCategoryConfidence(
                                    original_transaction, category, item.confidence),
          vendor_name       |-> item.vendor_name,
          vendor_confidence |-> CalculateVendorConfidence(
                                    item.vendor_name, original_transaction,
                                    item.vendor_confidence) ]

\* the except branch: the fallback FastBatchResult
FallbackResult(batch, i, n_results) ==
    [ transaction_id    |-> i + n_results,
      category          |-> "other",
      confidence        |-> CalculateLlmFallbackConfidence(
                                BatchAt(batch, n_results), "other"),
      vendor_name       |-> NoStr,
      vendor_confidence |-> ZeroConf ]

\* an item the try branch cannot process: not an object, or an id so far
\* below the batch that batch[transaction_index] raises IndexError
ItemRaises(item, batch, i, n_results) ==
    \/ item.malformed
    \/ /\ item.transaction_id # AbsentId
       /\ item.transaction_id - i < 0 - Len(batch)

\* for item in batch_results: results.append(...)
RECURSIVE ConvertItems(_, _, _, _)
ConvertItems(items, batch, i, results) ==
    IF items = <<>> THEN results
    ELSE ConvertItems(Tail(items), batch, i,
            Append(results,
                   IF ItemRaises(Head(items), batch, i, Len(results))
                   THEN FallbackResult(batch, i, Len(results))
                   ELSE ItemResult(Head(items), batch, i, Len(results))))

(***************************************************************************)
(* StreamlinedCategorizer: the prompt cache and the vendor-info cache of   *)
(* one categorizer.  A run is shorter than the TTL, so no entry expires.   *)
(***************************************************************************)
EmptyDictOf == [k \in {} |-> None]

\* d[key] = value
DictPut(d, key, value) ==
    [k \in DOMAIN d \cup {key} |-> IF k = key THEN value ELSE d[k]]

NoCaches == [prompt |-> EmptyDictOf, vendor |-> EmptyDictOf]

EmptyResponse == [kind |-> "empty"]

\* _make_api_call: the cached data, or the response; a response that is an
\* error, a timeout, unparseable or {} comes back as {} and is not cached
ApiData(c, prompt, response) ==
    IF prompt \in DOMAIN c.prompt THEN c.prompt[prompt] ELSE response

ApiCaches(c, prompt, response) ==
    IF prompt \in DOMAIN c.prompt \/ response.kind = "empty" THEN c
    ELSE [c EXCEPT !.prompt = DictPut(c.prompt, prompt, response)]

\* VendorInfo(...) of the fallback branch of enrich_vendor
FallbackVendorInfo(vendor_name) ==
    [ name |-> vendor_name, nicknames |-> <<>>, domain |-> NoStr,
      confidence |-> CalculateLlmFallbackConfidence([text |-> vendor_name], "None") ]

\* VendorInfo(**result) raises when a required field is missing
VendorInfoRaises(data) == data.name = NoStr \/ data.confidence = NoConf

\* enrich_vendor once the vendor-info cache has missed, given the api data
EnrichFromData(c, vendor_name, data) ==
    IF data.kind = "empty"
    THEN [exc |-> "none", info |-> FallbackVendorInfo(vendor_name), caches |-> c]
    ELSE IF data.kind = "bad"
    THEN [exc |-> "AttributeError", info |-> None, caches |-> c]
    ELSE IF VendorInfoRaises(data)
    THEN [exc |-> "ValidationError", info |-> None, caches |-> c]
    ELSE [exc |-> "none",
          info |-> [name |-> data.name, nicknames |-> data.nicknames,
                    domain |-> data.domain, confidence |-> OracleConf(data.confidence)],
          caches |-> [c EXCEPT !.vendor =
                        DictPut(c.vendor, Strip(Lower(vendor_name)),
                                [name |-> data.name, nicknames |-> data.nicknames,
                                 domain |-> data.domain,
                                 confidence |-> OracleConf(data.confidence)])]]

\* enrich_vendor, for responses that name no domain
EnrichVendor(c, vendor_name, response) ==
    IF Strip(Lower(vendor_name)) \in DOMAIN c.vendor
    THEN [exc |-> "none", info |-> c.vendor[Strip(Lower(vendor_name))], caches |-> c]
    ELSE EnrichFromData(ApiCaches(c, <<"enrich", vendor_name>>, response), vendor_name,
                        ApiData(c, <<"enrich", vendor_name>>, response))

(***************************************************************************)
(* The processor's session and create_or_get_vendor as the pipeline calls  *)
(* it.  store is [vendors, transactions, session].  The commit of          *)
(* _create_new_vendor ends in one of three ways: "ok"; "raced", another    *)
(* session inserted the same name after this one's look-ups; "locked",     *)
(* the store refused the write for another reason.                         *)
(***************************************************************************)
CommitOutcomes == {"ok", "raced", "locked"}

\* rows of the session given their rowids, in the order they were added
RECURSIVE Flushed(_, _)
Flushed(pending, next_id) ==
    IF pending = <<>> THEN <<>>
    ELSE <<[Head(pending) EXCEPT !.id = next_id]>> \o Flushed(Tail(pending), next_id + 1)

\* session.commit(): every pending object becomes a row
Commit(store) ==
    [store EXCEPT !.transactions = @ \o Flushed(store.session, NewId(@)),
                  !.session = <<>>]

\* session.rollback(), session.close(): the pending objects are dropped
Rollback(store) == [store EXCEPT !.session = <<>>]

\* _create_new_vendor on the processor's session
CreateNewVendor(store, vendor_name, vendor_info, commit) ==
    IF commit = "ok"
    THEN [ vendor |-> [NewVendor(vendor_name, vendor_info) EXCEPT !.id = NewId(store.vendors)],
           store  |-> Commit([store EXCEPT !.vendors = Append(@,
                        [NewVendor(vendor_name, vendor_info) EXCEPT !.id = NewId(store.vendors)])]),
           created |-> TRUE ]
    ELSE IF commit = "raced"
    THEN [ vendor |-> [NewVendor(vendor_name, vendor_info) EXCEPT !.id = NewId(store.vendors)],
           store  |-> Rollback([store EXCEPT !.vendors = Append(@,
                        [NewVendor(vendor_name, vendor_info) EXCEPT !.id = NewId(store.vendors)])]),
           created |-> FALSE ]
    ELSE [ vendor |-> NewVendor(vendor_name, vendor_info),
           store  |-> Rollback(store),
           created |-> FALSE ]

\* create_or_get_vendor, after the look-up by the raw name has missed
CreateUnlessEnriched(store, vendor_name, vendor_info, commit, enriched_match) ==
    IF vendor_info.name # vendor_name /\ enriched_match.found
    THEN [vendor |-> enriched_match.vendor, store |-> store, created |-> FALSE]
    ELSE CreateNewVendor(store, vendor_name, vendor_info, commit)

\* create_or_get_vendor
CreateOrGetVendor(store, vendor_name, vendor_info, commit, existing_match) ==
    IF existing_match.found
    THEN [vendor |-> existing_match.vendor, store |-> store, created |-> FALSE]
    ELSE CreateUnlessEnriched(store, vendor_name, vendor_info, commit,
                              FindExistingVendor(store.vendors, vendor_info.name))

(***************************************************************************)
(* CompactTransactionProcessor.process_vendor_for_transaction              *)
(***************************************************************************)
\* vendor_cache = vendor_cache or {}; vendor_cache[key] = value: an empty dict
\* is replaced by a new one, so the caller's dict is only written when it
\* already holds an entry
CachePut(vendor_cache, key, value) ==
    IF DOMAIN vendor_cache = {} THEN vendor_cache ELSE DictPut(vendor_cache, key, value)

\* return None, 0.0, "none"
NoVendor(store, c, vendor_cache) ==
    [ exc |-> "none", vendor |-> None, confidence |-> ZeroConf, source |-> "none",
      store |-> store, caches |-> c, vendor_cache |-> vendor_cache,
      looked_up |-> FALSE, db_match |-> FALSE, enriched |-> FALSE, created |-> FALSE ]

\* the statement raised before the method returned
VendorRaised(exc, store, c, vendor_cache, db_match, enriched) ==
    [ exc |-> exc, vendor |-> None, confidence |-> ZeroConf, source |-> "none",
      store |-> store, caches |-> c, vendor_cache |-> vendor_cache,
      looked_up |-> TRUE, db_match |-> db_match, enriched |-> enriched,
      created |-> FALSE ]

\* return vendor, vendor_info.confidence, "llm"
VendorAfterCreate(vendor_cache, vendor_name, e, g) ==
    [ exc |-> "none", vendor |-> g.vendor, confidence |-> e.info.confidence,
      source |-> "llm", store |-> g.store, caches |-> e.caches,
      vendor_cache |-> CachePut(vendor_cache, Lower(vendor_name),
                                [vendor |-> g.vendor, confidence |-> e.info.confidence]),
      looked_up |-> TRUE, db_match |-> FALSE, enriched |-> TRUE,
      created |-> g.created ]

\* vendor_info = self.categorizer.enrich_vendor(vendor_name) and what follows
VendorAfterEnrich(store, vendor_cache, vendor_name, commit, existing, e) ==
    IF e.exc # "none" THEN VendorRaised(e.exc, store, e.caches, vendor_cache, FALSE, TRUE)
    ELSE VendorAfterCreate(vendor_cache, vendor_name, e,
            CreateOrGetVendor(store, vendor_name, e.info, commit, existing))

\* existing = self.vendor_matcher.find_existing_vendor(vendor_name) and what
\* follows; CompactTransactionProcessor has no attribute confidence_calc
VendorAfterLookup(store, c, vendor_cache, vendor_name, transaction_data, response, commit, existing) ==
    IF existing.found
    THEN IF transaction_data # None
         THEN VendorRaised("AttributeError", store, c, vendor_cache, TRUE, FALSE)
         ELSE [ exc |-> "none", vendor |-> existing.vendor,
                confidence |-> ScoreConf(existing.score), source |-> "database",
                store |-> store, caches |-> c,
                vendor_cache |-> CachePut(vendor_cache, Lower(vendor_name),
                                    [vendor |-> existing.vendor,
                                     confidence |-> ScoreConf(existing.score)]),
                looked_up |-> TRUE, db_match |-> TRUE, enriched |-> FALSE,
                created |-> FALSE ]
    ELSE VendorAfterEnrich(store, vendor_cache, vendor_name, commit, existing,
                           EnrichVendor(c, vendor_name, response))

\* a mutant of SkipsVendor: the category is not looked at
SkipsVendorForNoNameOnly(vendor_name, category) == Falsy(vendor_name)

\* if not vendor_name or category != "vendor_payment"
SkipsVendor(vendor_name, category) ==
    Falsy(vendor_name) \/ category # "vendor_payment"

\* process_vendor_for_transaction
ProcessVendorForTransaction(store, c, vendor_cache, vendor_name, category, transaction_data, response, commit) ==
    IF SkipsVendor(vendor_name, category)
    THEN NoVendor(store, c, vendor_cache)
    ELSE IF Lower(vendor_name) \in DOMAIN vendor_cache
    THEN [ exc |-> "none", vendor |-> vendor_cache[Lower(vendor_name)].vendor,
           confidence |-> vendor_cache[Lower(vendor_name)].confidence,
           source |-> "cache", store |-> store, caches |-> c,
           vendor_cache |-> vendor_cache,
           looked_up |-> FALSE, db_match |-> FALSE, enriched |-> FALSE, created |-> FALSE ]
    ELSE VendorAfterLookup(store, c, vendor_cache, vendor_name, transaction_data,
                           response, commit,
                           FindExistingVendor(store.vendors, vendor_name))

(***************************************************************************)
(* DuplicateDetector and process_csv_with_duplicate_check.  Dates are      *)
(* hours, amounts are cents.  The amounts of the uploaded files are never  *)
(* exactly one cent from a stored one; those of the direct scan are.       *)
(***************************************************************************)
Abs(v) == IF v < 0 THEN 0 - v ELSE v

Now == 10 * 24 + 12

LookbackDays == 7

\* abs((new_trans["date"] - existing.date).days)
DateDiff(new_trans, existing) == Abs((new_trans.date - existing.date) \div 24)

\* a mutant of IsDuplicateOf: the amounts may differ by up to 0.02
IsDuplicateOfWithinTwoCents(new_trans, existing) ==
    /\ DateDiff(new_trans, existing) <= 1
    /\ Abs(new_trans.amount - existing.amount) <= 2
    /\ Ratio(Lower(new_trans.text), Lower(existing.text)) >= Score(85, 100)

\* the three filters of the scan, in the units above
IsDuplicateOf(new_trans, existing) ==
    /\ DateDiff(new_trans, existing) <= 1
    /\ Abs(new_trans.amount - existing.amount) <= 1
    /\ Ratio(Lower(new_trans.text), Lower(existing.text)) >= Score(85, 100)

\* similarity_score, in units of 1/(100 * ScoreScale)
SimilarityScore(new_trans, existing) ==
    (IF DateDiff(new_trans, existing) = 0 THEN 30 ELSE 24) * ScoreScale
    + 30 * ScoreScale
    + 40 * Ratio(Lower(new_trans.text), Lower(existing.text))

\* query(Transaction).filter(Transaction.date >= cutoff_date).all()
ExistingTransactions(rows) ==
    SelectSeq(rows, LAMBDA t : t.date >= Now - LookbackDays * 24)

\* a mutant of FirstDuplicate: the best-scoring existing transaction wins,
\* the earliest of the best
BestDuplicate(new_trans, existing_transactions) ==
    LET hits == {j \in 1..Len(existing_transactions) :
                    IsDuplicateOf(new_trans, existing_transactions[j])}
        best == {j \in hits : \A k \in hits :
                    SimilarityScore(new_trans, existing_transactions[k])
                      <= SimilarityScore(new_trans, existing_transactions[j])}
    IN  IF hits = {} THEN <<>>
        ELSE << [ new |-> new_trans, existing |-> existing_transactions[Min(best)],
                  score |-> SimilarityScore(new_trans, existing_transactions[Min(best)]) ] >>

\* the inner loop: the first existing transaction that passes, with break
FirstDuplicate(new_trans, existing_transactions) ==
    LET hits == {j \in 1..Len(existing_transactions) :
                    IsDuplicateOf(new_trans, existing_transactions[j])}
    IN  IF hits = {} THEN <<>>
        ELSE << [ new |-> new_trans, existing |-> existing_transactions[Min(hits)],
                  score |-> SimilarityScore(new_trans, existing_transactions[Min(hits)]) ] >>

\* find_duplicate_transactions
RECURSIVE ScanNew(_, _)
ScanNew(new_transactions, existing_transactions) ==
    IF new_transactions = <<>> THEN <<>>
    ELSE FirstDuplicate(Head(new_transactions), existing_transactions)
         \o ScanNew(Tail(new_transactions), existing_transactions)

FindDuplicateTransactions(new_transactions, rows) ==
    ScanNew(new_transactions, ExistingTransactions(rows))

\* trans.get("date") of a dict without a date
NoDate == 0 - 1

\* a mutant of TransactionsMatch: dates a full day apart still match
TransactionsMatchWithinDay(trans1, trans2) ==
    /\ trans1.date # NoDate /\ trans2.date # NoDate
    /\ Abs(trans1.amount - trans2.amount) < 1
    /\ trans1.text = trans2.text
    /\ Abs(trans1.date - trans2.date) <= 24

\* _transactions_match
TransactionsMatch(trans1, trans2) ==
    /\ trans1.date # NoDate /\ trans2.date # NoDate
    /\ Abs(trans1.amount - trans2.amount) < 1
    /\ trans1.text = trans2.text
    /\ Abs(trans1.date - trans2.date) < 24

\* is_duplicate for the row at 0-based index i
IsDuplicate(duplicates, trans, i, excluded_indices) ==
    \E d \in 1..Len(duplicates) :
        TransactionsMatch(duplicates[d].new, trans) /\ i \notin excluded_indices

\* the duplicate_info entry of the row at index i
DuplicateInfo(duplicates, trans, i) ==
    LET d == Min({d \in 1..Len(duplicates) : TransactionsMatch(duplicates[d].new, trans)})
    IN  [ index |-> i, text |-> trans.text, amount |-> trans.amount,
          existing_id |-> duplicates[d].existing.id, score |-> duplicates[d].score ]

\* the loop of process_csv_with_duplicate_check: (to process, duplicate_info)
RECURSIVE Classify(_, _, _, _)
Classify(all_transactions, duplicates, excluded_indices, i) ==
    IF i >= Len(all_transactions) THEN [to_process |-> <<>>, duplicate_info |-> <<>>]
    ELSE LET rest == Classify(all_transactions, duplicates, excluded_indices, i + 1)
             trans == all_transactions[i + 1]
         IN  IF IsDuplicate(duplicates, trans, i, excluded_indices)
             THEN [rest EXCEPT !.duplicate_info =
                        <<DuplicateInfo(duplicates, trans, i)>> \o @]
             ELSE [rest EXCEPT !.to_process = <<trans>> \o @]

(***************************************************************************)
(* The processing runs.  One run at a time goes through an entry point:    *)
(* "async" is process_csv_async (a new processor, categorizer and session  *)
(* per task), "dup_check" is process_csv_with_duplicate_check and          *)
(* "ultra_fast" is process_csv_ultra_fast (both on a processor of the      *)
(* dashboard: the one it keeps, or one it has just built).  run holds the locals of the running entry       *)
(* point, and, for stating properties, what the oracle answered and what   *)
(* the last vendor resolution did.                                         *)
(***************************************************************************)
MaxRuns == 2

Today == 10 * 24

LongAgo == 0 * 24

TextA == <<"x", "y">>

TextB == <<"y", "x">>

\* the files a user uploads, each already parsed by read_csv_file
CsvFiles ==
    { << [date |-> Today, amount |-> 0 - 500, text |-> TextA],
         [date |-> Today, amount |-> 1200, text |-> TextB] >>,
      << [date |-> LongAgo, amount |-> 0 - 500, text |-> TextA] >> }

Entries == {"async", "dup_check", "ultra_fast"}

BatchSizes == {1, 2}

ExcludedSets == {{}, {0}}

\* what the oracle may say about one transaction: the vendor it names is
\* one it reads in the transaction's text
ItemTemplates(transaction) ==
    IF transaction.text = TextA
    THEN { [malformed |-> FALSE, category |-> "vendor_payment",
            confidence |-> Score(9, 10),
            vendor_name |-> <<"X", "y">>, vendor_confidence |-> Score(8, 10)],
           [malformed |-> FALSE, category |-> "vendor_payment",
            confidence |-> Score(9, 10),
            vendor_name |-> NoStr, vendor_confidence |-> NoConf] }
    ELSE { [malformed |-> FALSE, category |-> "vendor_payment",
            confidence |-> Score(9, 10),
            vendor_name |-> <<"Y", "x">>, vendor_confidence |-> Score(8, 10)],
           [malformed |-> FALSE, category |-> "bank_fee", confidence |-> NoConf,
            vendor_name |-> <<"Y", "x">>, vendor_confidence |-> Score(8, 10)] }

WithId(template, id) ==
    [ malformed |-> template.malformed, transaction_id |-> id,
      category |-> template.category, confidence |-> template.confidence,
      vendor_name |-> template.vendor_name,
      vendor_confidence |-> template.vendor_confidence ]

\* an object with none of the keys, and an entry that is not an object
BareItem ==
    [ malformed |-> FALSE, transaction_id |-> AbsentId, category |-> Absent,
      confidence |-> NoConf, vendor_name |-> NoStr, vendor_confidence |-> NoConf ]

MalformedItem == [BareItem EXCEPT !.malformed = TRUE]

\* the entries the oracle may return for the batch at offset i
Items(batch, i) ==
    UNION { {WithId(t, i + idx - 1) : t \in ItemTemplates(batch[idx])}
            : idx \in 1..Len(batch) }
        \cup {BareItem, MalformedItem}

\* the "results" lists: at most one entry per row, no id twice
ItemSeqs(batch, i) ==
    UNION { { r \in [1..len -> Items(batch, i)] :
                \A a, b \in 1..len :
                    (a # b /\ r[a].transaction_id # AbsentId)
                        => r[a].transaction_id # r[b].transaction_id }
            : len \in 0..Len(batch) }

\* what _make_api_call may get for a batch prompt: nothing usable, a JSON
\* value that is not an object with a list under "results", or such an object
BatchResponses(batch, i) ==
    {EmptyResponse, [kind |-> "bad"]}
        \cup {[kind |-> "object", results |-> r] : r \in ItemSeqs(batch, i)}

\* what _make_api_call may get for an enrichment prompt
EnrichResponses ==
    { EmptyResponse,
      [kind |-> "object", name |-> <<"X", "y">>, nicknames |-> <<>>,
       domain |-> NoStr, confidence |-> Score(9, 10)],
      [kind |-> "object", name |-> <<"Y", "x">>, nicknames |-> <<>>,
       domain |-> NoStr, confidence |-> Score(9, 10)],
      [kind |-> "object", name |-> <<"X", "y">>, nicknames |-> <<>>,
       domain |-> NoStr, confidence |-> NoConf] }

NoLast == [called |-> FALSE]

IdleRun ==
    [ pc |-> "idle", n |-> 0, entry |-> "none", csv |-> <<>>, excluded |-> {},
      transactions |-> <<>>, batch_size |-> 1, i |-> 0, results |-> <<>>, k |-> 1,
      status |-> "none", exc |-> "none", duplicate_info |-> <<>>,
      rows_before |-> 0, resubmitted |-> FALSE, answered |-> {}, failed |-> {},
      last |-> NoLast ]

\* the categorizer a run uses
CachesOf(entry) == IF entry = "async" THEN caches.worker ELSE caches.ui

SetCaches(entry, c) ==
    IF entry = "async" THEN [caches EXCEPT !.worker = c] ELSE [caches EXCEPT !.ui = c]

Store == [vendors |-> vendors, transactions |-> transactions, session |-> session]

\* the locals of an entry point that has read csv
Started(entry, csv, batch_size, excluded, to_process, duplicate_info) ==
    [ IdleRun EXCEPT
        !.n = run.n + 1, !.entry = entry, !.csv = csv, !.excluded = excluded,
        !.batch_size = batch_size, !.transactions = to_process,
        !.duplicate_info = duplicate_info,
        !.rows_before = Len(transactions),
        !.resubmitted = (run.pc = "done" /\ run.csv = csv /\ run.status = "completed"),
        !.pc = IF duplicate_info # <<>> \/ (entry = "dup_check" /\ to_process = <<>>)
               THEN "done" ELSE "categorize",
        !.status = IF duplicate_info # <<>> THEN "duplicates"
                   ELSE IF entry = "dup_check" /\ to_process = <<>> THEN "completed"
                   ELSE "running" ]

\* process_csv_with_duplicate_check up to its return or its call of
\* _process_transactions
StartWithDuplicateCheck(csv, batch_size, excluded, c) ==
    run' = Started("dup_check", csv, batch_size, excluded, c.to_process, c.duplicate_info)

\* an entry point is called on one of the files: a processor the dashboard
\* keeps, or one just built (always so for a task)
StartOn(entries, files) ==
    \E entry \in entries, csv \in files, batch_size \in BatchSizes, fresh \in BOOLEAN :
        /\ entry = "async" => fresh
        /\ IF entry = "dup_check"
           THEN \E excluded \in ExcludedSets :
                  StartWithDuplicateCheck(csv, batch_size, excluded,
                      Classify(csv, FindDuplicateTransactions(csv, transactions),
                               excluded, 0))
           ELSE run' = Started(entry, csv, batch_size, {}, csv, <<>>)
        /\ session' = IF fresh THEN <<>> ELSE session
        /\ caches' = IF fresh THEN SetCaches(entry, NoCaches) ELSE caches

\* an upload through one of the entry points
StartRun ==
    /\ run # None
    /\ run.pc \in {"idle", "done"}
    /\ run.n < MaxRuns
    /\ StartOn(Entries, CsvFiles)
    /\ UNCHANGED <<vendors, transactions, procs, call>>

\* minimal_data, the part of the batch prompt that varies
MinimalData(batch, i) ==
    [idx \in 1..Len(batch) |->
        [id |-> i + idx - 1, text |-> batch[idx].text, amount |-> batch[idx].amount]]

\* the slots the oracle answered: an entry without an id answers by position
Answered(items, i) ==
    { [ id |-> IF items[p].transaction_id = AbsentId THEN i + p - 1
               ELSE items[p].transaction_id,
        category |-> items[p].category, vendor_name |-> items[p].vendor_name ]
      : p \in {q \in 1..Len(items) : ~items[q].malformed} }

\* the end of a run that raised: the task's session goes with the task
Failed(exc) == [run EXCEPT !.pc = "done", !.status = "failed", !.exc = exc]

SessionAfterFailure(pending) == IF run.entry = "async" THEN <<>> ELSE pending

\* the categorizer's caches once the run has ended: the task's categorizer
\* goes with the task as well
CachesAfterRun(c) ==
    IF run.entry = "async" THEN [caches EXCEPT !.worker = NoCaches]
    ELSE [caches EXCEPT !.ui = c]

\* one iteration of the loop over the batches, given the api data
AfterBatch(batch, data, c) ==
    IF data.kind = "bad"
    THEN /\ run' = Failed("AttributeError")
         /\ session' = SessionAfterFailure(session)
         /\ caches' = CachesAfterRun(c)
    ELSE /\ caches' = SetCaches(run.entry, c)
         /\ run' = [run EXCEPT
                !.results = ConvertItems(IF data.kind = "empty" THEN <<>> ELSE data.results,
                                         batch, run.i, run.results),
                !.i = run.i + run.batch_size,
                !.pc = IF run.i + run.batch_size >= Len(run.transactions)
                       THEN "process" ELSE "categorize",
                !.answered = @ \cup (IF data.kind = "empty" THEN {}
                                      ELSE Answered(data.results, run.i)),
                !.failed = @ \cup (IF data.kind = "empty"
                                    THEN run.i..(run.i + Len(batch) - 1) ELSE {})]
         /\ UNCHANGED session

\* categorize_batch_ultra_fast: the oracle call and the conversion of one batch
CategorizeBatch ==
    /\ run # None
    /\ run.pc = "categorize"
    /\ LET batch == SubSeq(run.transactions, run.i + 1,
                          Min({run.i + run.batch_size, Len(run.transactions)}))
       IN  \E response \in BatchResponses(batch, run.i) :
              AfterBatch(batch,
                  ApiData(CachesOf(run.entry),
                          <<"batch", MinimalData(batch, run.i)>>, response),
                  ApiCaches(CachesOf(run.entry),
                            <<"batch", MinimalData(batch, run.i)>>, response))
    /\ UNCHANGED <<vendors, transactions, procs, call>>

\* create_transaction_record
CreateTransactionRecord(transaction_data, category, confidence) ==
    [ id |-> NoId, date |-> transaction_data.date, amount |-> transaction_data.amount,
      text |-> transaction_data.text, category |-> category,
      category_confidence |-> confidence, vendor_id |-> NoId,
      vendor_confidence |-> ZeroConf, vendor_match_source |-> "NULL" ]

\* if vendor: ... of process_transactions_batch
WithVendor(transaction, pv, batch_result) ==
    IF pv.vendor # None
    THEN [transaction EXCEPT !.vendor_id = pv.vendor.id,
                             !.vendor_confidence = Times(pv.confidence,
                                                         batch_result.vendor_confidence),
                             !.vendor_match_source = pv.source]
    ELSE [transaction EXCEPT !.vendor_match_source = pv.source]

\* what the last call of process_vendor_for_transaction was given and did
LastCall(pv, batch_result, transaction_data) ==
    [ called |-> TRUE, category |-> batch_result.category,
      vendor_name |-> batch_result.vendor_name,
      transaction |-> transaction_data, confidence |-> pv.confidence,
      in_cache |-> pv.source = "cache", db_match |-> pv.db_match,
      exc |-> pv.exc, source |-> pv.source, looked_up |-> pv.looked_up,
      enriched |-> pv.enriched, created |-> pv.created ]

\* one iteration of the loop over zip(transactions, batch_results), given
\* the outcome of process_vendor_for_transaction; the two compact entry
\* points unpack its three values into two names
AfterVendor(transaction_data, batch_result, pv) ==
    /\ vendors' = pv.store.vendors
    /\ transactions' = pv.store.transactions
    /\ IF pv.exc # "none"
       THEN /\ run' = [Failed(pv.exc) EXCEPT !.last = LastCall(pv, batch_result, transaction_data)]
            /\ session' = SessionAfterFailure(pv.store.session)
            /\ caches' = CachesAfterRun(pv.caches)
       ELSE IF run.entry # "async"
       THEN /\ run' = [Failed("ValueError") EXCEPT !.last = LastCall(pv, batch_result, transaction_data)]
            /\ session' = pv.store.session
            /\ caches' = CachesAfterRun(pv.caches)
       ELSE /\ caches' = SetCaches(run.entry, pv.caches)
            /\ run' = [run EXCEPT !.k = run.k + 1, !.last = LastCall(pv, batch_result, transaction_data)]
            /\ session' = Append(pv.store.session,
                    WithVendor(CreateTransactionRecord(transaction_data,
                                    batch_result.category, batch_result.confidence),
                               pv, batch_result))

\* the rows the loop pairs: zip stops at the shorter list
Paired == Min({Len(run.transactions), Len(run.results)})

ProcessTransaction ==
    /\ run # None
    /\ run.pc = "process"
    /\ run.k <= Paired
    /\ \E response \in EnrichResponses, commit \in CommitOutcomes :
          AfterVendor(run.transactions[run.k], run.results[run.k],
              ProcessVendorForTransaction(Store, CachesOf(run.entry), EmptyDictOf,
                  run.results[run.k].vendor_name, run.results[run.k].category,
                  IF run.entry = "async" THEN None ELSE run.transactions[run.k],
                  response, commit))
    /\ UNCHANGED <<procs, call>>

\* after the loop: the task closes its processor and reports "completed";
\* the compact entry points commit
FinishRun ==
    /\ run # None
    /\ run.pc = "process"
    /\ run.k > Paired
    /\ run' = [run EXCEPT !.pc = "done", !.status = "completed"]
    /\ IF run.entry = "async"
       THEN /\ session' = Rollback(Store).session
            /\ UNCHANGED transactions
       ELSE /\ session' = Commit(Store).session
            /\ transactions' = Commit(Store).transactions
    /\ caches' = CachesAfterRun(caches.ui)
    /\ UNCHANGED <<vendors, procs, call>>

\* a mutant of Unlinked: the transactions of a deleted vendor go with it
UnlinkedByCascade(rows, vendor_ids) ==
    SelectSeq(rows, LAMBDA t : t.vendor_id \notin vendor_ids)

\* query(Transaction).filter(Transaction.vendor_id.in_(vendor_ids))
\*     .update({"vendor_id": None})
Unlinked(rows, vendor_ids) ==
    [j \in 1..Len(rows) |->
        IF rows[j].vendor_id \in vendor_ids
        THEN [rows[j] EXCEPT !.vendor_id = NoId]
        ELSE rows[j]]

\* the ways delete_vendors ends: the commit succeeds, or a statement or the
\* commit raises and the except branch rolls back
DeleteOutcomes == {"ok", "error"}

\* delete_vendors: the two tables after the call, and the returned pair
DeleteVendorsIn(vs, rows, vendor_ids, outcome) ==
    IF outcome = "ok"
    THEN [ ok |-> TRUE,
           deleted_count |-> Cardinality({i \in 1..Len(vs) : vs[i].id \in vendor_ids}),
           vendors |-> SelectSeq(vs, LAMBDA v : v.id \notin vendor_ids),
           transactions |-> Unlinked(rows, vendor_ids) ]
    ELSE [ ok |-> FALSE, deleted_count |-> 0, vendors |-> vs, transactions |-> rows ]

\* delete_vendors(vendor_ids) from the dashboard, between two runs
DeleteVendors ==
    /\ run # None
    /\ run.pc \in {"idle", "done"}
    /\ \E vendor_ids \in SUBSET {vendors[j].id : j \in 1..Len(vendors)} \ {{}},
          outcome \in DeleteOutcomes :
          /\ transactions' = DeleteVendorsIn(vendors, transactions, vendor_ids, outcome).transactions
          /\ vendors' = DeleteVendorsIn(vendors, transactions, vendor_ids, outcome).vendors
    /\ UNCHANGED <<session, caches, run, procs, call>>

Init ==
    /\ vendors = <<>>
    /\ transactions = <<>>
    /\ session = <<>>
    /\ caches = [ui |-> NoCaches, worker |-> NoCaches]
    /\ run = IdleRun
    /\ procs = None
    /\ call = None

Next ==
    \/ StartRun
    \/ CategorizeBatch
    \/ ProcessTransaction
    \/ FinishRun
    \/ DeleteVendors

Spec == Init /\ [][Next]_vars

(***************************************************************************)
(* One upload of a file of three rows on an empty store: the shortest run  *)
(* in which a row is pending when a vendor is created and a later row is   *)
(* still to be processed.                                                  *)
(***************************************************************************)
LongCsv ==
    << [date |-> Today, amount |-> 0 - 500, text |-> TextA],
       [date |-> Today, amount |-> 1200, text |-> TextB],
       [date |-> Today, amount |-> 0 - 700, text |-> TextA] >>

StartLongRun ==
    /\ run # None
    /\ run.pc = "idle"
    /\ StartOn(Entries, {LongCsv})
    /\ UNCHANGED <<vendors, transactions, procs, call>>

NextLong ==
    \/ StartLongRun
    \/ CategorizeBatch
    \/ ProcessTransaction
    \/ FinishRun

SpecLong == Init /\ [][NextLong]_vars

(***************************************************************************)
(* The four oracle-backed calls of one StreamlinedCategorizer, called one  *)
(* after another on the same categorizer.  call holds the last call: what  *)
(* it was given, what the oracle did, and what came back.  Here caches is  *)
(* the categorizer's own [prompt, vendor].                                 *)
(***************************************************************************)
MaxCalls == 3

\* a confidence key the response lacks
MissingConf == [fn |-> "None"]

\* if llm_confidence: ... else ...
Blend(llm_confidence) ==
    IF llm_confidence = MissingConf \/ llm_confidence = ZeroConf THEN MissingConf
    ELSE llm_confidence

\* the ways an API call ends inside the try of _make_api_call
RawFailures == {"network_error", "timeout", "invalid_json"}

\* _make_api_call on a cache miss: except Exception: return {}
Received(raw) == IF raw.kind \in RawFailures THEN EmptyResponse ELSE raw

OracleTransactions ==
    { [date |-> Today, amount |-> 0 - 500, text |-> TextA],
      [date |-> Today, amount |-> 1200, text |-> TextB] }

Failures == {[kind |-> k] : k \in RawFailures} \cup {EmptyResponse, [kind |-> "bad"]}

\* answers to the categorization prompt
CategoryResponses ==
    Failures \cup
    { [kind |-> "object", category |-> cat, confidence |-> conf, reasoning |-> r] :
        cat \in {"bank_fee", Absent},
        conf \in {OracleConf(Score(9, 10)), MissingConf},
        r \in BOOLEAN }

\* answers to the vendor identification prompt
IdentificationResponses ==
    Failures \cup
    { [kind |-> "object", vendor_name |-> v, confidence |-> conf, reasoning |-> r] :
        v \in {<<"X", "y">>, NoStr},
        conf \in {OracleConf(Score(9, 10)), MissingConf},
        r \in BOOLEAN }

\* the outcome of a call: a value, or the exception that left it
Returned(fn, failed, value, c) ==
    [fn |-> fn, failed |-> failed, raised |-> "none", value |-> value, caches |-> c]

Raised(fn, failed, exc, c) ==
    [fn |-> fn, failed |-> failed, raised |-> exc, value |-> None, caches |-> c]

\* result['confidence'] = calculated_confidence writes into the dict the
\* prompt cache holds, when it holds one
WithConfidence(c, prompt, confidence) ==
    IF prompt \in DOMAIN c.prompt
    THEN [c EXCEPT !.prompt[prompt].confidence = confidence]
    ELSE c

\* categorize_transaction, given the data _make_api_call returned
CategorizeFromData(c, prompt, transaction, data) ==
    IF data.kind = "empty"
    THEN Returned("categorize_transaction", TRUE,
            [category |-> "other",
             confidence |-> CalculateLlmFallbackConfidence(transaction, "other")], c)
    ELSE IF data.kind = "bad"
    THEN Raised("categorize_transaction", TRUE, "AttributeError", c)
    ELSE IF data.category = Absent \/ ~data.reasoning
    THEN Raised("categorize_transaction", FALSE, "ValidationError",
            WithConfidence(c, prompt, CalculateCategoryConfidence(transaction,
                IF data.category = Absent THEN "other" ELSE data.category,
                Blend(data.confidence))))
    ELSE Returned("categorize_transaction", FALSE,
            [category |-> data.category,
             confidence |-> CalculateCategoryConfidence(transaction, data.category,
                                Blend(data.confidence))],
            WithConfidence(c, prompt, CalculateCategoryConfidence(transaction,
                data.category, Blend(data.confidence))))

CategorizeTransaction(c, transaction, raw) ==
    CategorizeFromData(ApiCaches(c, <<"categorize", transaction>>, Received(raw)),
                       <<"categorize", transaction>>, transaction,
                       ApiData(c, <<"categorize", transaction>>, Received(raw)))

\* identify_vendor, given the data _make_api_call returned
IdentifyFromData(c, prompt, transaction, data) ==
    IF data.kind = "empty"
    THEN Returned("identify_vendor", TRUE,
            [vendor_name |-> NoStr, confidence |-> ZeroConf], c)
    ELSE IF data.kind = "bad"
    THEN Raised("identify_vendor", TRUE, "AttributeError", c)
    ELSE IF ~data.reasoning
    THEN Raised("identify_vendor", FALSE, "ValidationError",
            WithConfidence(c, prompt, CalculateVendorConfidence(data.vendor_name,
                transaction, Blend(data.confidence))))
    ELSE Returned("identify_vendor", FALSE,
            [vendor_name |-> data.vendor_name,
             confidence |-> CalculateVendorConfidence(data.vendor_name, transaction,
                                Blend(data.confidence))],
            WithConfidence(c, prompt, CalculateVendorConfidence(data.vendor_name,
                transaction, Blend(data.confidence))))

IdentifyVendor(c, transaction, raw) ==
    IdentifyFromData(ApiCaches(c, <<"identify", transaction>>, Received(raw)),
                     <<"identify", transaction>>, transaction,
                     ApiData(c, <<"identify", transaction>>, Received(raw)))

\* enrich_vendor as a call of its own
EnrichOutcome(failed, e) ==
    IF e.exc # "none" THEN Raised("enrich_vendor", failed, e.exc, e.caches)
    ELSE Returned("enrich_vendor", failed, e.info, e.caches)

\* categorize_batch_ultra_fast on a list that fits one batch
CategorizeBatchUltraFast(c, all_transactions, raw) ==
    IF ApiData(c, <<"batch", MinimalData(all_transactions, 0)>>, Received(raw)).kind = "bad"
    THEN Raised("categorize_batch_ultra_fast", TRUE, "AttributeError",
                ApiCaches(c, <<"batch", MinimalData(all_transactions, 0)>>, Received(raw)))
    ELSE IF ApiData(c, <<"batch", MinimalData(all_transactions, 0)>>, Received(raw)).kind = "empty"
    THEN Returned("categorize_batch_ultra_fast", TRUE, <<>>, c)
    ELSE Returned("categorize_batch_ultra_fast", FALSE,
            ConvertItems(ApiData(c, <<"batch", MinimalData(all_transactions, 0)>>,
                                 Received(raw)).results, all_transactions, 0, <<>>),
            ApiCaches(c, <<"batch", MinimalData(all_transactions, 0)>>, Received(raw)))

\* the call ends: call is its outcome, caches the categorizer's caches
Called(given, o) ==
    /\ call' = [ n |-> call.n + 1, fn |-> o.fn, given |-> given, failed |-> o.failed,
                 raised |-> o.raised, value |-> o.value ]
    /\ caches' = o.caches

CallCategorizeTransaction ==
    /\ call # None /\ call.n < MaxCalls
    /\ \E transaction \in OracleTransactions, raw \in CategoryResponses :
          Called(transaction, CategorizeTransaction(caches, transaction, raw))
    /\ UNCHANGED <<vendors, transactions, session, run, procs>>

CallIdentifyVendor ==
    /\ call # None /\ call.n < MaxCalls
    /\ \E transaction \in OracleTransactions, raw \in IdentificationResponses :
          Called(transaction, IdentifyVendor(caches, transaction, raw))
    /\ UNCHANGED <<vendors, transactions, session, run, procs>>

CallEnrichVendor ==
    /\ call # None /\ call.n < MaxCalls
    /\ \E vendor_name \in {<<"X", "y">>, <<"x", "y", " ">>},
          raw \in EnrichResponses \cup Failures :
          Called(vendor_name,
                 EnrichOutcome(Received(raw).kind = "empty" /\
                                 Strip(Lower(vendor_name)) \notin DOMAIN caches.vendor,
                               EnrichVendor(caches, vendor_name, Received(raw))))
    /\ UNCHANGED <<vendors, transactions, session, run, procs>>

CallCategorizeBatch ==
    /\ call # None /\ call.n < MaxCalls
    /\ \E csv \in CsvFiles :
          \E raw \in BatchResponses(csv, 0) \cup Failures :
              Called(csv, CategorizeBatchUltraFast(caches, csv, raw))
    /\ UNCHANGED <<vendors, transactions, session, run, procs>>

InitOracle ==
    /\ vendors = <<>>
    /\ transactions = <<>>
    /\ session = <<>>
    /\ caches = NoCaches
    /\ run = None
    /\ procs = None
    /\ call = [n |-> 0, fn |-> "none", given |-> None, failed |-> FALSE,
               raised |-> "none", value |-> None]

NextOracle ==
    \/ CallCategorizeTransaction
    \/ CallIdentifyVendor
    \/ CallEnrichVendor
    \/ CallCategorizeBatch

SpecOracle == InitOracle /\ [][NextOracle]_vars

(***************************************************************************)
(* The three caches of one StreamlinedCategorizer with the clock: an entry *)
(* is {"data", "timestamp"}, the time is in seconds.  Here caches is       *)
(* [now, ticks, prompt, vendor, domain], and call holds the last call,     *)
(* with what the oracle or the web answered and whether it was asked.      *)
(* The enrichment responses name no domain.                                *)
(***************************************************************************)
CacheTtl == 3600

MaxTicks == 2

MaxLookups == 2

\* the clock advances by a second or by the TTL
TickSteps == {1, CacheTtl}

\* a mutant of IsCacheExpired: an entry expires on reaching the TTL
IsCacheExpiredAtTtl(now, timestamp) == now - timestamp >= CacheTtl

\* _is_cache_expired
IsCacheExpired(now, timestamp) == now - timestamp > CacheTtl

\* if key in cache: if not self._is_cache_expired(cached_item["timestamp"])
CacheHit(cache, key, now) ==
    key \in DOMAIN cache /\ ~IsCacheExpired(now, cache[key].timestamp)

\* else: del cache[key]
DropExpired(cache, key, now) ==
    IF key \in DOMAIN cache /\ ~CacheHit(cache, key, now)
    THEN [k \in DOMAIN cache \ {key} |-> cache[k]]
    ELSE cache

\* cache[key] = {"data": data, "timestamp": time.time()}
CachePutAt(cache, key, data, now) ==
    DictPut(cache, key, [data |-> data, timestamp |-> now])

\* _make_api_call on a miss: the parsed answer is cached and returned,
\* whatever JSON value it is; an exception gives {} and caches nothing
ApiMiss(c, prompt, raw) ==
    [ data |-> Received(raw), asked |-> TRUE,
      caches |-> IF raw.kind \in RawFailures THEN c
                 ELSE [c EXCEPT !.prompt = CachePutAt(@, prompt, raw, c.now)] ]

\* _make_api_call
MakeApiCallAt(c, prompt, raw) ==
    IF CacheHit(c.prompt, prompt, c.now)
    THEN [data |-> c.prompt[prompt].data, asked |-> FALSE, caches |-> c]
    ELSE ApiMiss([c EXCEPT !.prompt = DropExpired(@, prompt, c.now)], prompt, raw)

\* enrich_vendor after the call of _make_api_call: the VendorInfo is cached
\* unless it is the fallback
EnrichAfterApi(vendor_name, api, e) ==
    [ exc |-> e.exc, info |-> e.info, asked |-> api.asked,
      caches |-> IF e.exc = "none" /\ api.data.kind # "empty"
                 THEN [api.caches EXCEPT !.vendor =
                           CachePutAt(@, Strip(Lower(vendor_name)), e.info, api.caches.now)]
                 ELSE api.caches ]

EnrichMiss(c, vendor_name, api) ==
    EnrichAfterApi(vendor_name, api, EnrichFromData(NoCaches, vendor_name, api.data))

\* enrich_vendor
EnrichVendorAt(c, vendor_name, raw) ==
    IF CacheHit(c.vendor, Strip(Lower(vendor_name)), c.now)
    THEN [ exc |-> "none", info |-> c.vendor[Strip(Lower(vendor_name))].data,
           asked |-> FALSE, caches |-> c ]
    ELSE EnrichMiss(c, vendor_name,
            MakeApiCallAt([c EXCEPT !.vendor =
                               DropExpired(@, Strip(Lower(vendor_name)), c.now)],
                          <<"enrich", vendor_name>>, raw))

\* (False, 0.0)
InvalidDomain == [valid |-> FALSE, confidence |-> 0]

\* domains_to_try = [d.strip() for d in domain.split(",") if d.strip()]
DomainsToTry(domain) ==
    SelectSeq([i \in 1..Len(Split(domain, ",")) |-> Strip(Split(domain, ",")[i])],
              NonEmpty)

\* the loop of _verify_domain over domains_to_try; web is what a request to
\* each domain gives, scored by calculate_domain_confidence, or (False, 0.0)
\* when the request raises; last is the local result, None while unbound
RECURSIVE VerifyLoop(_, _, _, _, _, _)
VerifyLoop(c, domains, company_name, web, last, fetched) ==
    IF domains = <<>>
    THEN [ result |-> IF last = None THEN InvalidDomain ELSE last,
           fetched |-> fetched, caches |-> c ]
    ELSE IF CacheHit(c.domain, <<Head(domains), Lower(company_name)>>, c.now)
    THEN IF c.domain[<<Head(domains), Lower(company_name)>>].data.valid
         THEN [ result |-> c.domain[<<Head(domains), Lower(company_name)>>].data,
                fetched |-> fetched, caches |-> c ]
         ELSE VerifyLoop(c, Tail(domains), company_name, web,
                         c.domain[<<Head(domains), Lower(company_name)>>].data, fetched)
    ELSE IF web[Head(domains)].valid
    THEN [ result |-> web[Head(domains)], fetched |-> fetched \cup {Head(domains)},
           caches |-> [c EXCEPT !.domain =
                         CachePutAt(DropExpired(@, <<Head(domains), Lower(company_name)>>, c.now),
                                    <<Head(domains), Lower(company_name)>>,
                                    web[Head(domains)], c.now)] ]
    ELSE VerifyLoop([c EXCEPT !.domain =
                         CachePutAt(DropExpired(@, <<Head(domains), Lower(company_name)>>, c.now),
                                    <<Head(domains), Lower(company_name)>>,
                                    web[Head(domains)], c.now)],
                    Tail(domains), company_name, web, web[Head(domains)],
                    fetched \cup {Head(domains)})

\* _verify_domain
VerifyDomainAt(c, domain, company_name, web) ==
    IF Falsy(domain)
    THEN [result |-> InvalidDomain, fetched |-> {}, caches |-> c]
    ELSE VerifyLoop(c, DomainsToTry(domain), company_name, web, None, {})

\* the prompts of the direct calls of _make_api_call
Prompts == { <<"prompt", <<"p">>>>, <<"prompt", <<"q">>>> }

\* what the API call ends with: an exception, or a JSON value
RawAnswers ==
    { [kind |-> "timeout"], EmptyResponse,
      [kind |-> "object", category |-> "bank_fee"],
      [kind |-> "object", category |-> "tax_payment"] }

DomainA == <<"x", ".", "y">>

DomainB == <<"y", ".", "x">>

\* the domain strings verified: none, one domain, two separated by a comma
DomainStrings == { NoStr, DomainA, DomainA \o <<",", " ">> \o DomainB }

\* what the requests give: a verified domain, or (False, 0.0)
WebResults == { [valid |-> TRUE, confidence |-> Score(8, 10)], InvalidDomain }

EnrichNames == { <<"X", "y">>, <<"x", "y", " ">> }

\* what the first test of a lookup finds under its key
Found(cache, key, now) ==
    IF key \notin DOMAIN cache THEN "miss"
    ELSE IF CacheHit(cache, key, now) THEN "fresh" ELSE "expired"

\* the key of the first cache a call consults
FirstKey(fn, given) ==
    IF fn = "_make_api_call" THEN given
    ELSE IF fn = "enrich_vendor" THEN Strip(Lower(given))
    ELSE IF Falsy(given) \/ DomainsToTry(given) = <<>> THEN <<>>
    ELSE <<DomainsToTry(given)[1], Lower(<<"X", "y">>)>>

\* the call ends: call is its outcome, caches the categorizer's caches
Looked(fn, given, response, cache, value, raised, asked, c) ==
    /\ call' = [ n |-> call.n + 1, fn |-> fn, given |-> given, response |-> response,
                 found |-> Found(cache, FirstKey(fn, given), caches.now),
                 value |-> value, raised |-> raised, asked |-> asked ]
    /\ caches' = c

CanLookUp == call # None /\ run = None /\ caches # None /\ call.n < MaxLookups

LookupMakeApiCall ==
    /\ CanLookUp
    /\ \E prompt \in Prompts, raw \in RawAnswers :
          Looked("_make_api_call", prompt, raw, caches.prompt, MakeApiCallAt(caches, prompt, raw).data,
                 "none", MakeApiCallAt(caches, prompt, raw).asked,
                 MakeApiCallAt(caches, prompt, raw).caches)
    /\ UNCHANGED <<vendors, transactions, session, run, procs>>

LookupEnrichVendor ==
    /\ CanLookUp
    /\ \E vendor_name \in EnrichNames, raw \in EnrichResponses \cup {[kind |-> "timeout"]} :
          Looked("enrich_vendor", vendor_name, raw, caches.vendor,
                 EnrichVendorAt(caches, vendor_name, raw).info,
                 EnrichVendorAt(caches, vendor_name, raw).exc,
                 EnrichVendorAt(caches, vendor_name, raw).asked,
                 EnrichVendorAt(caches, vendor_name, raw).caches)
    /\ UNCHANGED <<vendors, transactions, session, run, procs>>

LookupVerifyDomain ==
    /\ CanLookUp
    /\ \E domain \in DomainStrings, web \in [{DomainA, DomainB} -> WebResults] :
          Looked("_verify_domain", domain, web, caches.domain,
                 VerifyDomainAt(caches, domain, <<"X", "y">>, web).result, "none",
                 VerifyDomainAt(caches, domain, <<"X", "y">>, web).fetched,
                 VerifyDomainAt(caches, domain, <<"X", "y">>, web).caches)
    /\ UNCHANGED <<vendors, transactions, session, run, procs>>

\* time passes between two calls
Tick ==
    /\ call # None /\ run = None /\ caches # None
    /\ caches.ticks < MaxTicks
    /\ \E d \in TickSteps :
          caches' = [caches EXCEPT !.now = @ + d, !.ticks = @ + 1]
    /\ UNCHANGED <<vendors, transactions, session, run, procs, call>>

InitCache ==
    /\ vendors = <<>>
    /\ transactions = <<>>
    /\ session = <<>>
    /\ caches = [ now |-> 0, ticks |-> 0, prompt |-> EmptyDictOf,
                  vendor |-> EmptyDictOf, domain |-> EmptyDictOf ]
    /\ run = None
    /\ procs = None
    /\ call = [ n |-> 0, fn |-> "none", given |-> None, response |-> None,
                found |-> "miss", value |-> None, raised |-> "none", asked |-> FALSE ]

NextCache ==
    \/ LookupMakeApiCall
    \/ LookupEnrichVendor
    \/ LookupVerifyDomain
    \/ Tick

SpecCache == InitCache /\ [][NextCache]_vars

(***************************************************************************)
(* enrich_vendor with domain verification, called again and again on one   *)
(* categorizer built with verify_domains=True.  caches has one more field  *)
(* here, domain_order: the keys of _domain_cache in the order a dict keeps  *)
(* them, the order of their insertion.  A confidence of the answer is a    *)
(* term, the answer's float or MissingConf; the dict returned by           *)
(* _make_api_call is the one the prompt cache holds, so what enrich_vendor *)
(* stores in it is stored in the cache.                                    *)
(***************************************************************************)
\* f"{single_domain}||{company_name.lower()}"
DomainCacheKey(k) == k[1] \o <<"|", "|">> \o k[2]

\* the keys of the domain cache the call wrote: a write follows every del
WrittenKeys(before, after) ==
    {k \in DOMAIN after : k \notin DOMAIN before \/ after[k] # before[k]}

\* the order of the dict after _verify_domain: a key that was absent or
\* deleted goes to the end, in the order of domains_to_try
OrderAfter(order, before, after, domains, company_name) ==
    SelectSeq(order, LAMBDA k : k \notin WrittenKeys(before, after))
      \o SelectSeq([i \in 1..Len(domains) |-> <<domains[i], Lower(company_name)>>],
                   LAMBDA k : k \in WrittenKeys(before, after))

WithOrder(c, v, domain, company_name) ==
    [v EXCEPT !.caches.domain_order =
        OrderAfter(c.domain_order, c.domain, v.caches.domain,
                   IF Falsy(domain) THEN <<>> ELSE DomainsToTry(domain), company_name)]

\* _verify_domain, on the dict with its order
VerifyDomainOrdered(c, domain, company_name, web) ==
    WithOrder(c, VerifyDomainAt(c, domain, company_name, web), domain, company_name)

\* calculate_domain_penalty_factor(is_valid, domain_confidence)
CalculateDomainPenaltyFactor(result) ==
    [fn |-> "domain_penalty_factor", is_valid |-> result.valid,
     domain_confidence |-> result.confidence]

\* result.get("confidence", calculate_llm_fallback_confidence({'text': vendor_name}, None))
OriginalConfidence(result, vendor_name) ==
    IF result.confidence = MissingConf
    THEN CalculateLlmFallbackConfidence([text |-> vendor_name], "None")
    ELSE result.confidence

\* for cache_key, cached_item in self._domain_cache.items(): the loop
\* variable is the local cache_key of enrich_vendor; it ends on the key of
\* the first fresh valid entry of this vendor, or on the last key
RECURSIVE CachedDomainScan(_, _, _, _)
CachedDomainScan(c, order, vendor_name, cache_key) ==
    IF order = <<>> THEN [cache_key |-> cache_key, valid_domain |-> NoStr]
    ELSE IF /\ Head(order)[2] = Lower(vendor_name)
            /\ ~IsCacheExpired(c.now, c.domain[Head(order)].timestamp)
            /\ c.domain[Head(order)].data.valid
    THEN [cache_key |-> DomainCacheKey(Head(order)), valid_domain |-> Head(order)[1]]
    ELSE CachedDomainScan(c, Tail(order), vendor_name, DomainCacheKey(Head(order)))

\* common_tlds
CommonTlds ==
    << <<".", "a", "i">>, <<".", "c", "o", "m">>, <<".", "i", "o">>,
       <<".", "c", "o">>, <<".", "n", "e", "t">>, <<".", "o", "r", "g">> >>

\* domain.split(".")[0] if "." in domain else domain
BaseDomain(domain) == Split(domain, ".")[1]

\* for tld in common_tlds: the test `tld != domain.split(".")[-1] if "." in
\* domain else ".com"` is true for every tld, which starts with a dot
RECURSIVE TldLoop(_, _, _, _, _, _)
RECURSIVE TldStep(_, _, _, _, _, _, _)
TldLoop(c, base_domain, tlds, vendor_name, web, fetched) ==
    IF tlds = <<>> THEN [valid_domain |-> NoStr, caches |-> c, fetched |-> fetched]
    ELSE TldStep(c, base_domain, tlds, vendor_name, web, fetched,
                 VerifyDomainOrdered(c, base_domain \o Head(tlds), vendor_name, web))

\* test_valid, _ = self._verify_domain(test_domain, vendor_name)
TldStep(c, base_domain, tlds, vendor_name, web, fetched, v) ==
    IF v.result.valid
    THEN [valid_domain |-> base_domain \o Head(tlds), caches |-> v.caches,
          fetched |-> fetched \cup v.fetched]
    ELSE TldLoop(v.caches, base_domain, Tail(tlds), vendor_name, web,
                 fetched \cup v.fetched)

\* for cache_key in cache_keys_to_try, for one single_domain: the same
\* local again
CommaKeys(single_domain, vendor_name) ==
    << <<single_domain, Lower(vendor_name)>>, <<Lower(single_domain), Lower(vendor_name)>> >>

FreshValid(c, k) ==
    /\ k \in DOMAIN c.domain
    /\ ~IsCacheExpired(c.now, c.domain[k].timestamp)
    /\ c.domain[k].data.valid

\* for single_domain in domains_to_try: ... if valid_domain: break
RECURSIVE CommaScan(_, _, _, _)
CommaScan(c, domains, vendor_name, cache_key) ==
    IF domains = <<>> THEN [cache_key |-> cache_key, valid_domain |-> NoStr]
    ELSE IF FreshValid(c, CommaKeys(Head(domains), vendor_name)[1])
    THEN [cache_key |-> DomainCacheKey(CommaKeys(Head(domains), vendor_name)[1]),
          valid_domain |-> Head(domains)]
    ELSE IF FreshValid(c, CommaKeys(Head(domains), vendor_name)[2])
    THEN [cache_key |-> DomainCacheKey(CommaKeys(Head(domains), vendor_name)[2]),
          valid_domain |-> Head(domains)]
    ELSE CommaScan(c, Tail(domains), vendor_name,
                   DomainCacheKey(CommaKeys(Head(domains), vendor_name)[2]))

\* vendor_info = VendorInfo(**result); self._vendor_cache[cache_key] = ...;
\* return vendor_info.  result is the dict of the prompt cache
EnrichFinish(c, vendor_name, cache_key, result, asked, fetched) ==
    IF result.name = NoStr \/ result.confidence = MissingConf
    THEN [ exc |-> "ValidationError", info |-> None, asked |-> asked, fetched |-> fetched,
           fallback |-> FALSE,
           caches |-> [c EXCEPT !.prompt[<<"enrich", vendor_name>>].data = result] ]
    ELSE [ exc |-> "none",
           info |-> [name |-> result.name, nicknames |-> result.nicknames,
                     domain |-> result.domain, confidence |-> result.confidence],
           asked |-> asked, fetched |-> fetched, fallback |-> FALSE,
           caches |-> [c EXCEPT
              !.prompt[<<"enrich", vendor_name>>].data = result,
              !.vendor = CachePutAt(@, cache_key,
                            [name |-> result.name, nicknames |-> result.nicknames,
                             domain |-> result.domain, confidence |-> result.confidence],
                            c.now)] ]

\* if valid_domain: result["domain"] = valid_domain else: result["domain"] = None
EnrichAfterTlds(vendor_name, cache_key, result, asked, fetched, t) ==
    EnrichFinish(t.caches, vendor_name, cache_key, [result EXCEPT !.domain = t.valid_domain],
                 asked, fetched \cup t.fetched)

\* if not is_valid and domain_confidence == 0.0, after the loop over the
\* domain cache
EnrichAfterScan(c, vendor_name, result, asked, fetched, web, scan) ==
    IF scan.valid_domain # NoStr
    THEN EnrichFinish(c, vendor_name, scan.cache_key,
                      [result EXCEPT !.domain = scan.valid_domain], asked, fetched)
    ELSE EnrichAfterTlds(vendor_name, scan.cache_key, result, asked, fetched,
             TldLoop(c, BaseDomain(result.domain), CommonTlds, vendor_name, web, {}))

\* elif is_valid: if "," in domain, after the loop over domains_to_try
EnrichAfterCommaScan(c, vendor_name, result, asked, fetched, scan) ==
    EnrichFinish(c, vendor_name, scan.cache_key,
                 IF scan.valid_domain # NoStr
                 THEN [result EXCEPT !.domain = scan.valid_domain] ELSE result,
                 asked, fetched)

\* enrich_vendor after _verify_domain; result holds the new confidence
EnrichAfterVerify(vendor_name, cache_key, result, asked, web, v) ==
    IF ~v.result.valid /\ v.result.confidence = 0
    THEN EnrichAfterScan(v.caches, vendor_name, result, asked, v.fetched, web,
             CachedDomainScan(v.caches, v.caches.domain_order, vendor_name, cache_key))
    ELSE IF v.result.valid /\ \E i \in 1..Len(result.domain) : result.domain[i] = ","
    THEN EnrichAfterCommaScan(v.caches, vendor_name, result, asked, v.fetched,
             CommaScan(v.caches, DomainsToTry(result.domain), vendor_name, cache_key))
    ELSE EnrichFinish(v.caches, vendor_name, cache_key, result, asked, v.fetched)

\* result["confidence"] = original_confidence * penalty_factor
EnrichPenalised(vendor_name, cache_key, result, asked, web, v) ==
    EnrichAfterVerify(vendor_name, cache_key,
        [result EXCEPT !.confidence = Times(OriginalConfidence(result, vendor_name),
                                            CalculateDomainPenaltyFactor(v.result))],
        asked, web, v)

\* enrich_vendor once the vendor-info cache has missed
EnrichVerifiedMiss(vendor_name, cache_key, api, web) ==
    IF api.data.kind = "empty"
    THEN [ exc |-> "none", info |-> FallbackVendorInfo(vendor_name), asked |-> api.asked,
           fetched |-> {}, fallback |-> TRUE, caches |-> api.caches ]
    ELSE IF Falsy(api.data.domain)
    THEN EnrichFinish(api.caches, vendor_name, cache_key, api.data, api.asked, {})
    ELSE EnrichPenalised(vendor_name, cache_key, api.data, api.asked, web,
             VerifyDomainOrdered(api.caches, api.data.domain, vendor_name, web))

\* enrich_vendor
EnrichVendorVerified(c, vendor_name, raw, web) ==
    IF CacheHit(c.vendor, Strip(Lower(vendor_name)), c.now)
    THEN [ exc |-> "none", info |-> c.vendor[Strip(Lower(vendor_name))].data,
           asked |-> FALSE, fetched |-> {}, fallback |-> FALSE, caches |-> c ]
    ELSE EnrichVerifiedMiss(vendor_name, Strip(Lower(vendor_name)),
             MakeApiCallAt([c EXCEPT !.vendor =
                                DropExpired(@, Strip(Lower(vendor_name)), c.now)],
                           <<"enrich", vendor_name>>, raw),
             web)

\* the answers to the enrichment prompt: a failure, {} or an object that
\* names no domain, one domain or two
EnrichAnswers ==
    { [kind |-> "timeout"], EmptyResponse }
      \cup { [kind |-> "object", name |-> <<"X", "y">>, nicknames |-> <<>>,
              domain |-> d, confidence |-> conf] :
                d \in DomainStrings, conf \in {OracleConf(Score(9, 10)), MissingConf} }

\* what a request gives: a verified domain, a page that does not name the
\* company, or an exception
VerifiedResults ==
    { [valid |-> TRUE, confidence |-> Score(8, 10)],
      [valid |-> FALSE, confidence |-> Score(3, 10)], InvalidDomain }

\* the domains a call may request
TestDomains == {BaseDomain(DomainA) \o CommonTlds[i] : i \in 1..Len(CommonTlds)}

\* the web: what the two named domains give, and which variation answers
Webs ==
    { [d \in {DomainA, DomainB} \cup TestDomains |->
          IF d = DomainA THEN a
          ELSE IF d = DomainB THEN b
          ELSE IF d = t THEN [valid |-> TRUE, confidence |-> Score(8, 10)]
          ELSE InvalidDomain] :
        a \in VerifiedResults, b \in {[valid |-> TRUE, confidence |-> Score(8, 10)], InvalidDomain},
        t \in {NoStr, BaseDomain(DomainA) \o CommonTlds[1], BaseDomain(DomainA) \o CommonTlds[3]} }

\* the call ends: call is its outcome, caches the categorizer's caches
Enriched(vendor_name, raw, e) ==
    /\ call' = [ n |-> call.n + 1, fn |-> "enrich_vendor", given |-> vendor_name,
                 response |-> raw,
                 found |-> Found(caches.vendor, Strip(Lower(vendor_name)), caches.now),
                 value |-> e.info, raised |-> e.exc, asked |-> e.asked,
                 fetched |-> e.fetched, fallback |-> e.fallback ]
    /\ caches' = e.caches

CallEnrichVendorVerified ==
    /\ CanLookUp
    /\ \E vendor_name \in EnrichNames, raw \in EnrichAnswers, web \in Webs :
          Enriched(vendor_name, raw, EnrichVendorVerified(caches, vendor_name, raw, web))
    /\ UNCHANGED <<vendors, transactions, session, run, procs>>

InitEnrich ==
    /\ vendors = <<>>
    /\ transactions = <<>>
    /\ session = <<>>
    /\ caches = [ now |-> 0, ticks |-> 0, prompt |-> EmptyDictOf,
                  vendor |-> EmptyDictOf, domain |-> EmptyDictOf, domain_order |-> <<>> ]
    /\ run = None
    /\ procs = None
    /\ call = [ n |-> 0, fn |-> "none", given |-> None, response |-> None,
                found |-> "miss", value |-> None, raised |-> "none", asked |-> FALSE,
                fetched |-> {}, fallback |-> FALSE ]

NextEnrich ==
    \/ CallEnrichVendorVerified
    \/ Tick

SpecEnrich == InitEnrich /\ [][NextEnrich]_vars

(***************************************************************************)
(* DuplicateDetector.find_duplicate_transactions, called directly on any   *)
(* store.  The amounts are one and two cents apart here: for two amounts   *)
(* one cent apart the float difference falls on either side of 0.01, and   *)
(* IsDuplicateOf takes the side that flags the pair.                       *)
(***************************************************************************)
MaxExisting == 2

\* texts whose lowered ratios are 1, 12/14 and 10/14
ScanText == <<"x", "y", "x", "y", "x", "y", "x">>

ScanTextNear == <<"x", "y", "x", "y", "x", "y", "y">>

ScanTextFar == <<"x", "y", "x", "y", "y", "y", "y">>

\* the rows the store may hold: the same day, one day and two days before
ExistingPool ==
    { [date |-> d, amount |-> a, text |-> t] :
        d \in {Today, Today - 24, Today - 48},
        a \in {1000, 1001, 1002},
        t \in {ScanText, ScanTextNear, ScanTextFar} }

ExistingTables(n) == [1..n -> ExistingPool]

\* the rows of the uploaded file
NewPool ==
    { [date |-> Today, amount |-> 1000, text |-> <<"X", "Y", "X", "Y", "X", "Y", "X">>],
      [date |-> Today, amount |-> 1002, text |-> ScanText],
      [date |-> Today + 23, amount |-> 1000, text |-> ScanText] }

\* one scan of an uploaded file against the store
CallFindDuplicateTransactions ==
    /\ call # None /\ caches = None /\ call.fn = "none"
    /\ \E n \in 1..2 : \E new_transactions \in [1..n -> NewPool] :
          call' = [ fn |-> "find_duplicate_transactions", given |-> new_transactions,
                    value |-> FindDuplicateTransactions(new_transactions, transactions),
                    pass |-> "none" ]
    /\ UNCHANGED <<vendors, transactions, session, caches, run, procs>>

InitScan ==
    /\ vendors = <<>>
    /\ transactions \in UNION {ExistingTables(n) : n \in 0..MaxExisting}
    /\ session = <<>>
    /\ caches = None
    /\ run = None
    /\ procs = None
    /\ call = [fn |-> "none", given |-> None, value |-> None, pass |-> "none"]

NextScan == CallFindDuplicateTransactions

SpecScan == InitScan /\ [][NextScan]_vars

(***************************************************************************)
(* _transactions_match of process_csv_with_duplicate_check, applied to any *)
(* two transaction dicts.                                                  *)
(***************************************************************************)
\* dicts with and without a date, 0 to 36 hours apart, equal or one unit
\* apart in amount, with texts equal, equal up to case, and different
MatchPool ==
    { [date |-> d, amount |-> a, text |-> t] :
        d \in {NoDate, Today, Today + 12, Today + 23, Today + 24, Today + 36},
        a \in {1000, 1001},
        t \in {TextA, <<"X", "y">>, TextB} }

\* one comparison of two dicts
CallTransactionsMatch ==
    /\ call # None /\ caches = None /\ call.fn = "none"
    /\ \E trans1 \in MatchPool, trans2 \in MatchPool :
          call' = [ fn |-> "_transactions_match", given |-> <<trans1, trans2>>,
                    value |-> TransactionsMatch(trans1, trans2), pass |-> "none" ]
    /\ UNCHANGED <<vendors, transactions, session, caches, run, procs>>

InitEquality ==
    /\ vendors = <<>>
    /\ transactions = <<>>
    /\ session = <<>>
    /\ caches = None
    /\ run = None
    /\ procs = None
    /\ call = [fn |-> "none", given |-> None, value |-> None, pass |-> "none"]

NextEquality == CallTransactionsMatch

SpecEquality == InitEquality /\ [][NextEquality]_vars

(***************************************************************************)
(* ConfidenceCalculator.calculate_transaction_quality_score, in units of   *)
(* 1/QualityScale.  The amounts are zero and signed powers of ten, given   *)
(* by their exponent, so that log10 is exact.                              *)
(***************************************************************************)
QualityScale == 150000

RECURSIVE Repeat(_, _)
Repeat(s, n) == IF n = 0 THEN <<>> ELSE s \o Repeat(s, n - 1)

\* len(text.split()): the runs of characters other than whitespace
WordCount(text) ==
    Cardinality({i \in 1..Len(text) :
                    text[i] # " " /\ (i = 1 \/ text[i - 1] = " ")})

\* text_score * 0.3
TextPart(text) ==
    IF Falsy(text) THEN 0
    ELSE 9 * Min({Len(text), 50}) * (70 + 3 * WordCount(text))

\* amount_score * 0.2, for an amount of 10 ^ exponent: log10 / 4.0, capped
\* at 1.0 and raised to 0.3
AmountPart(amount) ==
    IF amount.zero THEN 0
    ELSE 300 * Max({Min({25 * amount.exponent, 100}), 30})

\* completeness * 0.3 over date, sender, receiver, message, currency
CompletenessPart(transaction) ==
    9000 * Cardinality({f \in {"date", "sender", "receiver", "message", "currency"} :
                          ~Falsy(transaction[f])})

\* message_score * 0.2
MessagePart(message) ==
    IF Falsy(message) \/ Strip(message) = <<>> THEN 0
    ELSE 1000 * Min({Len(message), 30})

\* calculate_transaction_quality_score: score / max_score, max_score = 1.0
CalculateTransactionQualityScore(transaction) ==
    TextPart(transaction.text) + AmountPart(transaction.amount)
    + CompletenessPart(transaction) + MessagePart(transaction.message)

\* amounts 0, 1, 100, 10000 and 1000000, of either sign
QualityAmounts ==
    {[zero |-> TRUE]} \cup
    {[zero |-> FALSE, negative |-> n, exponent |-> e] : n \in BOOLEAN, e \in {0, 2, 4, 6}}

\* no text, a short one, a blank one, one long word, and 26 short words
QualityTexts ==
    { <<>>, TextA, <<" ", " ">>, Repeat(<<"a">>, 50), Repeat(<<"a", " ">>, 26) }

QualityMessages == { <<>>, <<" ">>, TextA, Repeat(<<"a">>, 30) }

\* the transaction dicts scored; a key that is absent reads as its default
QualityTransactions ==
    { [text |-> t, amount |-> a, date |-> d, sender |-> x, receiver |-> x,
       message |-> m, currency |-> c] :
        t \in QualityTexts, a \in QualityAmounts, d \in {NoStr, <<"d">>},
        x \in {<<>>, <<"a">>}, m \in QualityMessages, c \in {<<>>, <<"a">>} }

\* {}
EmptyTransaction ==
    [text |-> <<>>, amount |-> [zero |-> TRUE], date |-> NoStr, sender |-> <<>>,
     receiver |-> <<>>, message |-> <<>>, currency |-> <<>>]

\* one transaction is scored
CallQualityScore ==
    /\ call # None /\ caches = None /\ call.fn = "none"
    /\ \E transaction \in QualityTransactions :
          call' = [ fn |-> "calculate_transaction_quality_score", given |-> transaction,
                    value |-> CalculateTransactionQualityScore(transaction),
                    pass |-> "none" ]
    /\ UNCHANGED <<vendors, transactions, session, caches, run, procs>>

InitQuality ==
    /\ vendors = <<>>
    /\ transactions = <<>>
    /\ session = <<>>
    /\ caches = None
    /\ run = None
    /\ procs = None
    /\ call = [fn |-> "none", given |-> None, value |-> None, pass |-> "none"]

NextQuality == CallQualityScore

SpecQuality == InitQuality /\ [][NextQuality]_vars

(***************************************************************************)
(* The loop of _find_fuzzy_match over vendors given by their scores: what  *)
(* _calculate_similarity, _check_nicknames and _check_domain return for    *)
(* each.  _calculate_similarity returns 0.0, 0.9 or a ratio below 1.0, so  *)
(* no score is 1.0.                                                        *)
(***************************************************************************)
MaxCandidates == 2

\* ratios 7/10, 8/10, 19/20 and 39/40
CandidateScoreValues == {Score(7, 10), Score(8, 10), Score(95, 100), Score(39, 40)}

\* a vendor row with its canonical score, and its nickname and domain scores
\* when the row has nicknames and a domain
Candidates ==
    { [id |-> 0, score |-> s, nicknames |-> n, nickname_score |-> ns,
       domain |-> d, domain_score |-> ds] :
        s \in CandidateScoreValues,
        n \in BOOLEAN, ns \in CandidateScoreValues \cup {0},
        d \in BOOLEAN, ds \in CandidateScoreValues \cup {0} }
    \ { c \in [id : {0}, score : CandidateScoreValues, nicknames : BOOLEAN,
                nickname_score : CandidateScoreValues \cup {0}, domain : BOOLEAN,
                domain_score : CandidateScoreValues \cup {0}] :
           (c.nicknames <=> c.nickname_score = 0) \/ (c.domain <=> c.domain_score = 0) }

CandidateTables(n) ==
    { [i \in 1..n |-> [t[i] EXCEPT !.id = i]] : t \in [1..n -> Candidates] }

\* one iteration of the loop of _find_fuzzy_match, the three scores given
ScoredNicknameStep(best, vendor) ==
    IF vendor.nicknames /\ vendor.score < Score(95, 100)
    THEN Better(best, vendor, vendor.nickname_score)
    ELSE best

ScoredDomainStep(best, vendor) ==
    IF vendor.domain /\ best.score < ScoreScale
    THEN Better(best, vendor, vendor.domain_score)
    ELSE best

ScoredStep(best, vendor) ==
    ScoredDomainStep(ScoredNicknameStep(Better(best, vendor, vendor.score), vendor), vendor)

RECURSIVE ScoredLoop(_, _, _)
ScoredLoop(vs, i, best) ==
    IF i > Len(vs) THEN best ELSE ScoredLoop(vs, i + 1, ScoredStep(best, vs[i]))

\* one fuzzy pass over the vendor table
CallFindFuzzyMatch ==
    /\ call # None /\ caches = None /\ call.fn = "none"
    /\ call' = [ fn |-> "_find_fuzzy_match", given |-> vendors,
                 value |-> FuzzyResult(ScoredLoop(vendors, 1, NoBest)), pass |-> "none" ]
    /\ UNCHANGED <<vendors, transactions, session, caches, run, procs>>

InitFuzzy ==
    /\ vendors \in UNION {CandidateTables(n) : n \in 0..MaxCandidates}
    /\ transactions = <<>>
    /\ session = <<>>
    /\ caches = None
    /\ run = None
    /\ procs = None
    /\ call = [fn |-> "none", given |-> None, value |-> None, pass |-> "none"]

NextFuzzy == CallFindFuzzyMatch

SpecFuzzy == InitFuzzy /\ [][NextFuzzy]_vars

(***************************************************************************)
(* The matcher's pure functions, called directly.  The vendor table is     *)
(* any table of at most MaxVendors rows over a pool of vendors whose names *)
(* are distinct byte for byte, as the unique index requires; call holds    *)
(* the arguments and the returned value.                                   *)
(***************************************************************************)
MaxVendors == 2

\* rows a vendor table may hold: case variants of one name, a name made of
\* punctuation, names close to each other, nicknames and a domain
VendorPool ==
    { [name |-> <<"X", "y">>, nicknames |-> <<>>, domain |-> NoStr],
      [name |-> <<"x", "y">>, nicknames |-> <<>>, domain |-> NoStr],
      [name |-> <<".">>, nicknames |-> <<>>, domain |-> NoStr],
      [name |-> <<"x", "y", "x", "x", "x">>, nicknames |-> <<>>, domain |-> NoStr],
      [name |-> <<"Y", "y", "y">>, nicknames |-> <<"y", "x", ",", " ", "x", "x", "y">>,
       domain |-> NoStr],
      [name |-> <<"Y", "Y">>, nicknames |-> <<>>,
       domain |-> <<"x", ".", "Y", "X", "X", ".", "y">>] }

\* the tables of n rows, rowids 1..n
VendorTables(n) ==
    { [i \in 1..n |-> [id |-> i, name |-> t[i].name, nicknames |-> t[i].nicknames,
                       domain |-> t[i].domain]] :
        t \in {u \in [1..n -> VendorPool] :
                  \A a, b \in 1..n : a # b => u[a].name # u[b].name} }

\* the names looked up
MatchNames ==
    { <<"X", "y">>, <<"x", "Y">>, <<".">>, <<"x", "y", ".">>, <<"y", "x">>,
      <<"x", "y", "x", "y", "x">>, <<"x", "x", "y">>, <<"y", "x", "x">>,
      <<"x", "x", "x", "x", "y", "y">>, <<>>, NoStr }

\* the strings compared
SimilarityStrings ==
    { <<>>, <<"x">>, <<"x", "y">>, <<"y", "x">>, <<"x", "y", "x", "y", "x">>,
      <<"x", "y", "x", "x", "x">>, <<"x", "x", "y", "y">> }

\* find_existing_vendor: the pass that decided the answer
PassOf(vs, vendor_name) ==
    IF Falsy(vendor_name) \/ NormalizeName(vendor_name) = <<>> THEN "none"
    ELSE IF FindExactMatch(vs, vendor_name, NormalizeName(vendor_name)) # None
    THEN "exact"
    ELSE "fuzzy"

CallFindExistingVendor ==
    /\ call # None /\ caches = None
    /\ \E vendor_name \in MatchNames :
          call' = [ fn |-> "find_existing_vendor", given |-> vendor_name,
                    value |-> FindExistingVendor(vendors, vendor_name),
                    pass |-> PassOf(vendors, vendor_name) ]
    /\ UNCHANGED <<vendors, transactions, session, caches, run, procs>>

CallCalculateSimilarity ==
    /\ call # None /\ caches = None
    /\ \E str1 \in SimilarityStrings, str2 \in SimilarityStrings :
          call' = [ fn |-> "_calculate_similarity", given |-> <<str1, str2>>,
                    value |-> CalculateSimilarity(str1, str2), pass |-> "none" ]
    /\ UNCHANGED <<vendors, transactions, session, caches, run, procs>>

InitMatch ==
    /\ vendors \in UNION {VendorTables(n) : n \in 0..MaxVendors}
    /\ transactions = <<>>
    /\ session = <<>>
    /\ caches = None
    /\ run = None
    /\ procs = None
    /\ call = [fn |-> "none", given |-> None, value |-> None, pass |-> "none"]

NextMatch ==
    \/ CallFindExistingVendor
    \/ CallCalculateSimilarity

SpecMatch == InitMatch /\ [][NextMatch]_vars

(***************************************************************************)
(* The dashboard's delete_vendors on a store that holds vendors and        *)
(* transactions: at most MaxVendors vendors, at most MaxRows transactions, *)
(* each without a vendor or referencing a stored one.  Nothing is pending  *)
(* on the dashboard's session.                                             *)
(***************************************************************************)
MaxRows == 2

\* a stored row of a vendor_payment: without a vendor, or matched to vendor_id
StoredRow(vendor_id) ==
    [ CreateTransactionRecord([date |-> Today, amount |-> 0 - 500, text |-> TextA],
                              "vendor_payment", OracleConf(Score(9, 10)))
      EXCEPT !.vendor_id = vendor_id,
             !.vendor_confidence = IF vendor_id = NoId THEN ZeroConf
                                   ELSE OracleConf(Score(8, 10)),
             !.vendor_match_source = IF vendor_id = NoId THEN "none" ELSE "llm" ]

\* the transaction tables of n rows over the vendor table vs, rowids 1..n
TransactionTables(vs, n) ==
    { [j \in 1..n |-> [StoredRow(ref[j]) EXCEPT !.id = j]] :
        ref \in [1..n -> {NoId} \cup {vs[i].id : i \in 1..Len(vs)}] }

\* the ids the dashboard may pass: of stored vendors, and of one that is not
VendorIdSets == SUBSET (1..(MaxVendors + 1)) \ {{}}

CallDeleteVendors ==
    /\ call # None /\ caches = None
    /\ \E vendor_ids \in VendorIdSets, outcome \in DeleteOutcomes :
          /\ vendors' = DeleteVendorsIn(vendors, transactions, vendor_ids, outcome).vendors
          /\ transactions' =
                DeleteVendorsIn(vendors, transactions, vendor_ids, outcome).transactions
          /\ call' = [ fn |-> "delete_vendors", given |-> vendor_ids,
                       value |-> [ok |-> DeleteVendorsIn(vendors, transactions,
                                                         vendor_ids, outcome).ok,
                                  deleted_count |-> DeleteVendorsIn(vendors, transactions,
                                                         vendor_ids, outcome).deleted_count],
                       pass |-> "none" ]
    /\ UNCHANGED <<session, caches, run, procs>>

InitDashboard ==
    /\ vendors \in UNION {VendorTables(n) : n \in 0..MaxVendors}
    /\ transactions \in UNION {TransactionTables(vendors, n) : n \in 0..MaxRows}
    /\ session = <<>>
    /\ caches = None
    /\ run = None
    /\ procs = None
    /\ call = [fn |-> "none", given |-> None, value |-> None, pass |-> "none"]

NextDashboard == CallDeleteVendors

SpecDashboard == InitDashboard /\ [][NextDashboard]_vars

(***************************************************************************)
(* Properties of the processing runs and of the oracle calls               *)
(***************************************************************************)
\* the rows the current run has added to the store
NewRows == {transactions[j] : j \in (run.rows_before + 1)..Len(transactions)}

\* row is the record of transaction_data
RowOf(row, transaction_data) ==
    /\ row.date = transaction_data.date
    /\ row.amount = transaction_data.amount
    /\ row.text = transaction_data.text

\* C3: when a run that went on to process its transactions has ended, one
\* Transaction row is in the store for each of them, whatever the oracle
\* did, and the row of a transaction whose batch call failed carries the
\* fallback category and the fallback confidence.
C3_EveryParsedTransactionPersisted ==
    (run.pc = "done" /\ run.status # "duplicates") =>
        \A k \in 1..Len(run.transactions) :
            \E row \in NewRows :
                /\ RowOf(row, run.transactions[k])
                /\ (k - 1) \in run.failed =>
                      /\ row.category \in {"other", "not_categorized"}
                      /\ row.category_confidence =
                            CalculateLlmFallbackConfidence(run.transactions[k], "other")

\* C4: once categorize_batch_ultra_fast has returned, there is one result
\* per input transaction, the k-th result carries the k-th id and is the
\* oracle's answer for that id, and a slot the oracle left out or garbled is
\* "other" with the fallback confidence of that same transaction.
C4_OneResultPerInputAlignedById ==
    (run.pc = "process" /\ run.k = 1) =>
        /\ Len(run.results) = Len(run.transactions)
        /\ \A k \in 1..Len(run.transactions) :
              /\ run.results[k].transaction_id = k - 1
              /\ \A a \in run.answered :
                    a.id = k - 1 =>
                        /\ run.results[k].category =
                              (IF a.category = Absent THEN "other" ELSE a.category)
                        /\ run.results[k].vendor_name = a.vendor_name
              /\ (\A a \in run.answered : a.id # k - 1) =>
                    /\ run.results[k].category = "other"
                    /\ run.results[k].confidence =
                          CalculateLlmFallbackConfidence(run.transactions[k], "other")

\* C5: none of categorize_transaction, identify_vendor, enrich_vendor and
\* categorize_batch_ultra_fast raises, whatever the oracle did (network
\* error, timeout, empty or malformed response, response without a
\* confidence), and after a failed oracle call each returns a value that
\* carries the fallback confidence.
C5_NoOracleFailureIsFatal ==
    call.n > 0 =>
        /\ call.raised = "none"
        /\ (call.failed /\ call.fn = "categorize_transaction") =>
              call.value.confidence = CalculateLlmFallbackConfidence(call.given, "other")
        /\ (call.failed /\ call.fn = "enrich_vendor") =>
              call.value.confidence =
                  CalculateLlmFallbackConfidence([text |-> call.given], "None")

\* C6: for a vendor_payment with a vendor name, process_vendor_for_transaction
\* answers from the batch cache without a look-up or an oracle call, else from
\* the database (source "database") without an oracle call or a creation,
\* else enriches and creates with source "llm".
C6_CacheThenDatabaseThenOracle ==
    (run.last.called /\ run.last.category = "vendor_payment"
                     /\ ~Falsy(run.last.vendor_name)) =>
        /\ run.last.in_cache =>
              /\ run.last.source = "cache"
              /\ ~run.last.looked_up /\ ~run.last.enriched
        /\ (~run.last.in_cache /\ run.last.db_match) =>
              /\ run.last.source = "database"
              /\ ~run.last.enriched /\ ~run.last.created
        /\ (~run.last.in_cache /\ ~run.last.db_match) =>
              /\ run.last.source = "llm"
              /\ run.last.enriched

\* C7: a run on the CSV of the run before it, nothing excluded, adds no
\* Transaction row, and through the duplicate check every row of the CSV is
\* flagged as a duplicate.
C7_ResubmissionAddsNothing ==
    (run.pc = "done" /\ run.resubmitted /\ run.excluded = {}) =>
        /\ Len(transactions) = run.rows_before
        /\ run.entry = "dup_check" => Len(run.duplicate_info) = Len(run.csv)

\* C8: every Transaction row without a vendor has vendor_confidence 0.0.
C8_NullVendorZeroConfidence ==
    \A j \in 1..Len(transactions) :
        transactions[j].vendor_id = NoId => transactions[j].vendor_confidence = ZeroConf

\* the Transaction records the pipeline has built: stored or still pending
Produced ==
    {transactions[j] : j \in 1..Len(transactions)} \cup {session[j] : j \in 1..Len(session)}

\* C9 (as stated): a Transaction has a vendor exactly when its category is
\* vendor_payment.
C9_VendorIffVendorPayment ==
    \A t \in Produced : (t.vendor_id # NoId) <=> (t.category = "vendor_payment")

\* C9 (amended): a Transaction with a vendor has category vendor_payment,
\* and for a transaction of another category no vendor is looked up,
\* enriched or created.
C9_VendorOnlyForVendorPayment ==
    /\ \A t \in Produced : (t.vendor_id # NoId) => (t.category = "vendor_payment")
    /\ (run.last.called /\ run.last.category # "vendor_payment") =>
          /\ run.last.source = "none"
          /\ ~run.last.looked_up /\ ~run.last.enriched /\ ~run.last.created

\* a stored vendor_payment row that references a vendor, after a run in
\* which a transaction of another category named a vendor
C9_Witness ==
    /\ \E j \in 1..Len(transactions) :
          transactions[j].vendor_id # NoId /\ transactions[j].category = "vendor_payment"
    /\ run.last.called
    /\ run.last.category # "vendor_payment"
    /\ ~Falsy(run.last.vendor_name)

\* C12: when process_vendor_for_transaction answers from the batch cache or
\* from the database, the confidence it returns is vendor_confidence computed
\* for the current transaction, not the cached value and not the raw match
\* score.
C12_HitConfidenceFromCurrentTransaction ==
    (run.last.called /\ run.last.exc = "none"
                     /\ run.last.source \in {"cache", "database"}) =>
        /\ run.last.confidence.fn = "vendor_confidence"
        /\ run.last.confidence.vendor_name = run.last.vendor_name
        /\ run.last.confidence.transaction = run.last.transaction

\* some stored vendor's name equals name case-insensitively
ExactMatchExists(vs, name) ==
    \E i \in 1..Len(vs) : Lower(vs[i].name) = Lower(name)

\* C13: when some stored vendor's canonical name equals a non-empty name
\* case-insensitively, find_existing_vendor returns such a vendor with score
\* exactly 1.0, from the exact pass, without the fuzzy scan.
C13_ExactMatchScoresOne ==
    ( /\ call.fn = "find_existing_vendor"
      /\ ~Falsy(call.given)
      /\ ExactMatchExists(vendors, call.given) )
    => /\ call.value.found
       /\ call.value.score = ScoreScale
       /\ Lower(call.value.vendor.name) = Lower(call.given)
       /\ call.pass = "exact"

\* the three scores of one candidate in the fuzzy pass
CandidateScores(vendor, normalized_input) ==
    { CalculateSimilarity(normalized_input, NormalizeName(vendor.name)) }
        \cup (IF vendor.nicknames # <<>>
              THEN {CheckNicknames(normalized_input, vendor.nicknames)} ELSE {})
        \cup (IF ~Falsy(vendor.domain)
              THEN {CheckDomain(normalized_input, vendor.domain)} ELSE {})

\* some candidate's canonical-name, nickname or domain score reaches 0.8
SomeCandidateReaches(vs, name) ==
    /\ ~Falsy(name)
    /\ \E i \in 1..Len(vs) :
          \E score \in CandidateScores(vs[i], NormalizeName(name)) : score >= Score(8, 10)

\* C14: a pair returned by find_existing_vendor has a score of at least 0.8,
\* and None is returned exactly when no candidate's canonical-name, nickname
\* or domain score reaches 0.8 and no exact match exists.
C14_ThresholdDecidesMatch ==
    call.fn = "find_existing_vendor" =>
        /\ call.value.found => call.value.score >= Score(8, 10)
        /\ ~call.value.found <=>
              ( /\ ~SomeCandidateReaches(vendors, call.given)
                /\ ~(~Falsy(call.given) /\ ExactMatchExists(vendors, call.given)) )

\* C15: _calculate_similarity(s, s) is exactly 1.0 for every non-empty s.
C15_SimilarityReflexive ==
    ( /\ call.fn = "_calculate_similarity"
      /\ call.given[1] = call.given[2]
      /\ call.given[1] # <<>> )
    => call.value = ScoreScale

\* C16: delete_vendors keeps every Transaction row: the number of rows is
\* unchanged, a row that referenced a deleted vendor differs only in its
\* now null vendor reference, every other row is untouched and exactly the
\* vendors named are gone; when the call fails neither table changes.
C16_DeleteVendorsKeepsTransactions ==
    [][ call'.fn = "delete_vendors" =>
          /\ Len(transactions') = Len(transactions)
          /\ call'.value.ok =>
                /\ \A j \in 1..Len(transactions) :
                      /\ transactions[j].vendor_id \in call'.given =>
                            /\ transactions'[j].vendor_id = NoId
                            /\ [transactions'[j] EXCEPT !.vendor_id = 0] =
                                  [transactions[j] EXCEPT !.vendor_id = 0]
                      /\ transactions[j].vendor_id \notin call'.given =>
                            transactions'[j] = transactions[j]
                /\ \A v \in {vendors[i] : i \in 1..Len(vendors)} :
                      (v.id \notin call'.given) <=>
                          (\E i \in 1..Len(vendors') : vendors'[i] = v)
                /\ \A i \in 1..Len(vendors') : vendors'[i].id \notin call'.given
          /\ ~call'.value.ok =>
                /\ vendors' = vendors
                /\ transactions' = transactions
      ]_vars

\* a vendor was deleted: its transaction is still stored, without a vendor,
\* beside a transaction that references a vendor that was not deleted
C16_Witness ==
    /\ call.fn = "delete_vendors" /\ call.value.ok /\ call.value.deleted_count > 0
    /\ \E j, k \in 1..Len(transactions) :
          /\ transactions[j].vendor_id = NoId
          /\ transactions[j].vendor_match_source = "llm"
          /\ transactions[k].vendor_id # NoId
          /\ \E i \in 1..Len(vendors) : vendors[i].id = transactions[k].vendor_id

\* C17: when a run has failed, none of the Transaction rows it added is in
\* the store, and the exception has reached the caller.
C17_FailedRunCommitsNothing ==
    (run.pc = "done" /\ run.status = "failed") =>
        /\ NewRows = {}
        /\ run.exc # "none"

\* the entry under key is no older than the TTL
WithinTtl(cache, key, now) ==
    key \in DOMAIN cache /\ now - cache[key].timestamp <= CacheTtl

\* no entry older than the TTL is left under key: none, or one written now
Renewed(cache, key, now) == key \in DOMAIN cache => cache[key].timestamp = now

\* _make_api_call serves the prompt entry while its age is at most the TTL,
\* and otherwise asks the oracle and returns its answer
PromptLookup(given, c) ==
    /\ call'.raised = "none"
    /\ WithinTtl(c.prompt, given, c.now) =>
          call'.value = c.prompt[given].data /\ ~call'.asked /\ caches' = c
    /\ ~WithinTtl(c.prompt, given, c.now) =>
          /\ call'.asked /\ call'.value = Received(call'.response)
          /\ Renewed(caches'.prompt, given, c.now)

\* the api data enrich_vendor works from once its own cache has missed
FreshApiData(prompt, c) ==
    IF WithinTtl(c.prompt, prompt, c.now) THEN c.prompt[prompt].data
    ELSE Received(call'.response)

\* enrich_vendor serves the vendor entry while its age is at most the TTL,
\* and otherwise builds the VendorInfo from the api data: it raises only
\* when VendorInfo rejects that data
VendorLookup(given, c) ==
    /\ WithinTtl(c.vendor, Strip(Lower(given)), c.now) =>
          /\ call'.value = c.vendor[Strip(Lower(given))].data
          /\ call'.raised = "none" /\ ~call'.asked /\ caches' = c
    /\ ~WithinTtl(c.vendor, Strip(Lower(given)), c.now) =>
          /\ Renewed(caches'.vendor, Strip(Lower(given)), c.now)
          /\ call'.asked = ~WithinTtl(c.prompt, <<"enrich", given>>, c.now)
          /\ call'.raised =
               EnrichFromData(NoCaches, given, FreshApiData(<<"enrich", given>>, c)).exc
          /\ call'.value =
               EnrichFromData(NoCaches, given, FreshApiData(<<"enrich", given>>, c)).info

\* _verify_domain serves the entry of the first domain it tries while its
\* age is at most the TTL, and otherwise requests the domain again
DomainLookup(key, c) ==
    /\ call'.raised = "none"
    /\ key = <<>> => call'.value = InvalidDomain /\ call'.asked = {} /\ caches' = c
    /\ (key # <<>> /\ WithinTtl(c.domain, key, c.now)) =>
          /\ key[1] \notin call'.asked
          /\ caches'.domain[key] = c.domain[key]
          /\ c.domain[key].data.valid =>
                call'.value = c.domain[key].data /\ caches' = c
    /\ (key # <<>> /\ ~WithinTtl(c.domain, key, c.now)) =>
          /\ key[1] \in call'.asked
          /\ caches'.domain[key] =
                [data |-> call'.response[key[1]], timestamp |-> c.now]
          /\ call'.response[key[1]].valid => call'.value = call'.response[key[1]]

PromptOf(fn, given) ==
    IF fn = "enrich_vendor" THEN <<"enrich", given>> ELSE <<"categorize", given>>

\* a call of fn returned, and its repetition finds the oracle's response
\* in the prompt cache
RepeatedFromCache(fn) ==
    /\ call # None /\ caches # None /\ run = None
    /\ call.fn = fn /\ call.raised = "none"
    /\ call'.fn = fn /\ call'.n = call.n + 1 /\ call'.given = call.given
    /\ PromptOf(fn, call.given) \in DOMAIN caches.prompt

\* C19: repeating categorize_transaction or enrich_vendor with the same
\* input, the response being served from the cache, returns the same
\* category and the same confidence as the first call
C19_CacheTransparent ==
    [][ /\ RepeatedFromCache("categorize_transaction") =>
              /\ call'.raised = "none"
              /\ call'.value.category = call.value.category
              /\ call'.value.confidence = call.value.confidence
        /\ RepeatedFromCache("enrich_vendor") =>
              call'.raised = "none" /\ call'.value = call.value ]_vars

\* the pairs (new_trans, existing, similarity_score) a scan returned
Flagged == {call.value[i] : i \in 1..Len(call.value)}

\* C20: the fuzzy duplicate scan never flags a pair whose amounts differ by
\* 0.02 or more, whatever their texts and dates, and every pair it flags has
\* a text similarity of at least 0.85
C20_FlaggedPairsAreClose ==
    (call # None /\ call.fn = "find_duplicate_transactions") =>
        \A d \in Flagged :
            /\ Abs(d.new.amount - d.existing.amount) < 2
            /\ Ratio(Lower(d.new.text), Lower(d.existing.text)) >= Score(85, 100)

\* a scan flagged a pair one cent apart whose texts differ, and passed over
\* a stored row of the same text and day that is two cents from the new one
C20_Witness ==
    /\ call # None /\ call.fn = "find_duplicate_transactions"
    /\ \E d \in Flagged :
          /\ Abs(d.new.amount - d.existing.amount) = 1
          /\ Lower(d.new.text) # Lower(d.existing.text)
          /\ \E j \in 1..Len(transactions) :
                /\ j < Min({k \in 1..Len(transactions) : transactions[k] = d.existing})
                /\ transactions[j].text = Lower(d.new.text)
                /\ transactions[j].date = d.new.date
                /\ Abs(d.new.amount - transactions[j].amount) = 2

\* C21: the scan skips every stored transaction more than 24 hours from the
\* new one, whichever is the earlier: no reported pair is more than a day
\* apart, and a pair passes the date filter in one order iff it passes in
\* the other
C21_DateFilterWithinOneDay ==
    (call # None /\ call.fn = "find_duplicate_transactions") =>
        /\ \A d \in Flagged : Abs(d.new.date - d.existing.date) <= 24
        /\ \A i \in 1..Len(call.given), j \in 1..Len(transactions) :
              (DateDiff(call.given[i], transactions[j]) <= 1)
                = (DateDiff(transactions[j], call.given[i]) <= 1)

\* the stored rows, in store order, that pass the three filters for new_trans
Passing(new_trans) ==
    {j \in 1..Len(transactions) : IsDuplicateOf(new_trans, transactions[j])}

\* the new transactions, by position, that have a passing stored row
Matched == {i \in 1..Len(call.given) : Passing(call.given[i]) # {}}

\* C25: first match wins: the result holds, in the order of the file, one
\* pair for each new transaction that has a passing stored transaction, the
\* first in store order, and nothing for the others
C25_FirstMatchWins ==
    (call # None /\ call.fn = "find_duplicate_transactions") =>
        /\ Len(call.value) = Cardinality(Matched)
        /\ \A i \in Matched :
              LET k == Cardinality({m \in Matched : m <= i})
              IN  /\ call.value[k].new = call.given[i]
                  /\ call.value[k].existing =
                        transactions[Min(Passing(call.given[i]))]

\* a scan paired a new transaction with the first passing stored row although
\* the second one passes too and scores higher
C25_Witness ==
    /\ call # None /\ call.fn = "find_duplicate_transactions"
    /\ Len(transactions) = 2 /\ Len(call.value) = 1
    /\ call.value[1].existing = transactions[1]
    /\ IsDuplicateOf(call.value[1].new, transactions[2])
    /\ SimilarityScore(call.value[1].new, transactions[2]) > call.value[1].score

\* C22: the resubmission equality check is true exactly when both dates are
\* present, the amounts differ by less than 0.01, the texts are equal and
\* the dates are less than 24 hours apart in either direction; with equal
\* amount and text it is true at 12 hours and false at 36 hours
C22_TransactionsMatchExactly ==
    (call # None /\ call.fn = "_transactions_match") =>
        LET a == call.given[1]
            b == call.given[2]
        IN  /\ call.value =
                  ( /\ a.date # NoDate /\ b.date # NoDate
                    /\ a.amount - b.amount < 1 /\ b.amount - a.amount < 1
                    /\ a.text = b.text
                    /\ a.date - b.date < 24 /\ b.date - a.date < 24 )
            /\ (a.date # NoDate /\ b.date # NoDate /\ a.amount = b.amount /\ a.text = b.text) =>
                  /\ (a.date - b.date = 12 \/ b.date - a.date = 12) => call.value
                  /\ (a.date - b.date = 36 \/ b.date - a.date = 36) => ~call.value

\* two dicts equal in amount and text, the first 12 hours after the second,
\* were found equal
C22_Witness ==
    /\ call # None /\ call.fn = "_transactions_match"
    /\ call.value
    /\ call.given[1].date = Today + 12 /\ call.given[2].date = Today

\* C23: for every transaction the quality score lies in [0, 1], and for the
\* empty transaction it is exactly 0.0
C23_QualityScoreInUnitInterval ==
    (call # None /\ call.fn = "calculate_transaction_quality_score") =>
        /\ 0 <= call.value /\ call.value <= QualityScale
        /\ call.given = EmptyTransaction => call.value = 0

\* the best of the scores of a candidate: canonical name, nicknames, domain
CandidateBest(c) ==
    Max({c.score} \cup (IF c.nicknames THEN {c.nickname_score} ELSE {})
                  \cup (IF c.domain THEN {c.domain_score} ELSE {}))

\* the global maximum over the candidates of a table
GlobalBest(vs) == Max({0} \cup {CandidateBest(vs[i]) : i \in 1..Len(vs)})

\* C24: best match wins: _find_fuzzy_match returns the vendor and score an
\* unoptimized scan returns, which evaluates the three checks of every
\* candidate and keeps the global maximum if it reaches 0.8; the skipped
\* nickname and domain checks never change the result
C24_BestMatchWins ==
    (call # None /\ call.fn = "_find_fuzzy_match") =>
        IF GlobalBest(call.given) < Threshold THEN ~call.value.found
        ELSE /\ call.value.found
             /\ call.value.score = GlobalBest(call.given)
             /\ call.value.vendor =
                   call.given[Min({i \in 1..Len(call.given) :
                                     CandidateBest(call.given[i]) = GlobalBest(call.given)})]

\* C26: when process_csv_async returns "completed" with total_processed = n,
\* the n Transaction records of the run are committed to the store before
\* the session is closed, whether or not a vendor was created in the run
C26_CompletedRunIsCommitted ==
    (run # None /\ run.pc = "done" /\ run.entry = "async" /\ run.status = "completed") =>
        Len(transactions) - run.rows_before = Paired

\* the row at 0-based index i of the file is flagged: it matches the new
\* side of a pair the scan found against the store the run started on
FlaggedAt(i) ==
    \E d \in 1..Len(FindDuplicateTransactions(run.csv,
                        SubSeq(transactions, 1, run.rows_before))) :
        TransactionsMatch(FindDuplicateTransactions(run.csv,
                              SubSeq(transactions, 1, run.rows_before))[d].new,
                          run.csv[i + 1])

\* C27: process_csv_with_duplicate_check with the selected indices persists
\* every row that is not flagged and every flagged row that is selected, and
\* skips the flagged rows that are not selected, whenever the oracle answers
\* for every row it is asked about and no answer of it ends the run
C27_SelectedAndNewRowsProcessed ==
    (run # None /\ run.pc = "done" /\ run.entry = "dup_check"
       /\ run.exc \in {"none", "ValueError"}
       /\ (run.status = "duplicates" \/ Len(run.results) = Len(run.transactions))) =>
        \A i \in 0..(Len(run.csv) - 1) :
            (~FlaggedAt(i) \/ i \in run.excluded)
              <=> \E row \in NewRows : RowOf(row, run.csv[i + 1])

\* an earlier row of the run named the same vendor, in lower case, and was
\* resolved: the loop went on past it
ResolvedEarlier ==
    \E j \in 1..(run.k - 2) :
        /\ ~SkipsVendor(run.results[j].vendor_name, run.results[j].category)
        /\ Lower(run.results[j].vendor_name) = Lower(run.last.vendor_name)

\* C28: in a run of the task, once a row's vendor name has been resolved from
\* the database or the oracle, a later row of the same run with the same
\* lowercased vendor name is resolved with source "cache", without a lookup,
\* an enrichment or a creation
C28_LaterSameNameFromCache ==
    (run # None /\ run.entry = "async" /\ run.pc \in {"process", "done"}
       /\ run.last.called /\ run.last.exc = "none"
       /\ ~SkipsVendor(run.last.vendor_name, run.last.category)
       /\ ResolvedEarlier) =>
        (run.last.source = "cache" /\ ~run.last.looked_up /\ ~run.last.enriched)

\* the step is a row of a run whose vendor creation failed on the uniqueness
\* constraint: another session had stored the name, and nothing was created
CreationRaced ==
    /\ run # None /\ run.pc = "process"
    /\ run' # None /\ run'.last.called /\ run'.last.enriched /\ ~run'.last.created
    /\ vendors' # vendors

\* C29: a uniqueness violation during vendor creation leaves the run's other
\* work unchanged: the Transaction records added to the session earlier in
\* the run and not yet committed are still pending after the rollback of
\* _create_new_vendor, or are rows of the table
C29_PendingRowsSurviveRollback ==
    [][CreationRaced =>
         \A j \in 1..Len(session) :
            \/ (j <= Len(session') /\ session'[j] = session[j])
            \/ \E row \in 1..Len(transactions') : RowOf(transactions'[row], session[j])
      ]_vars

\* C30: after enrich_vendor(name) has returned a VendorInfo made from a
\* non-empty oracle answer, whatever the domain verification did, the
\* vendor-info cache holds that VendorInfo under lower(strip(name)), stamped
\* with the time of the call
C30_EnrichedVendorIsCached ==
    [][(call'.fn = "enrich_vendor" /\ call'.n # call.n
          /\ call'.raised = "none" /\ ~call'.fallback) =>
         /\ Strip(Lower(call'.given)) \in DOMAIN caches'.vendor
         /\ caches'.vendor[Strip(Lower(call'.given))].data = call'.value
         /\ CacheHit(caches'.vendor, Strip(Lower(call'.given)), caches'.now)
      ]_vars

\* CATEGORIES
Categories ==
    { "vendor_payment", "salary_payment", "customer_payment_received", "tax_payment",
      "bank_fee", "internal_transfer", "not_categorized" }

\* C10: every stored Transaction row has a category of the closed set;
\* "other" is never stored.
C10_StoredCategoryInClosedSet ==
    \A j \in 1..Len(transactions) : transactions[j].category \in Categories

====
